---- MODULE Spec2Model ----
(***************************************************************************)
(* AccessWeb (AccessAssist): the complaint and organization store kept in  *)
(* browser local storage, as operated by ComplaintManager, the complaint   *)
(* formManager's fallback, ComplaintTracker and AdminManager.                     *)
(*                                                                         *)
(* One browser tab is modelled.  Every navigation is a page load that      *)
(* rebuilds the in-memory collections from local storage.  A page may or   *)
(* may not carry the global ComplaintManager (window.complaintManager);    *)
(* the page scripts test for it and fall back to local storage.            *)
(***************************************************************************)
EXTENDS Integers, Sequences, FiniteSets, TLC

VARIABLES
    now,              \* the clock read by new Date(), in ticks
    page,             \* which page of the site is loaded
    hasCM,            \* window.complaintManager exists on this page
    complaints,       \* the in-memory complaint array of the page
    organizations,    \* the in-memory organization array of the page
    lsComplaints,     \* localStorage['complaints']
    lsOrganizations,  \* localStorage['organizations']
    exported,         \* the document last produced by AdminManager.exportData
    tracker,          \* the tracking page: filters, displayed cards, modal
    formManager,      \* the complaint form: step, fields, formData, timers
    lsDraft,          \* localStorage['complaint-form-draft']
    voice,            \* voice navigation: button, flags, recognizer, timers
    otherTab,         \* the managers of a second tab in the background
    failures,         \* how many localStorage.setItem calls have thrown so far
    ev                \* the last handler run: its name and its result

vars == <<now, page, hasCM, complaints, organizations,
          lsComplaints, lsOrganizations, exported, tracker, formManager, lsDraft,
          voice, otherTab, failures, ev>>

-----------------------------------------------------------------------------
(* Bounds of the model *)

MaxTime == 1
MaxComplaints == 1
MaxOrgs == 4
MaxLog == 1
\* how many storage writes may throw in one behaviour
MaxFailures == 1

\* how many restart timeouts of the voice navigation wait at once
MaxTimers == 2
\* ticks in one day: stands for 1000 * 60 * 60 * 24 milliseconds
DayTicks == 2

-----------------------------------------------------------------------------
(* Values *)

Pages == {"index", "create", "track", "admin"}

\* a local storage key that holds nothing: getItem returns null
NoItem == [absent |-> TRUE]

\* no document has been exported yet
NoDoc == [nodoc |-> TRUE]

\* no second tab is open
NoTab == [closed |-> TRUE]

\* a document part that is absent, and one that is present but not an array
Missing == [missing |-> TRUE]

NotArray == [notarray |-> TRUE]

\* a document part that is an array
Array(items) == [array |-> items]

\* Array.isArray on a part of a document
IsArray(part) == "array" \in DOMAIN part

JSONStringify(v) == [json |-> v]

JSONParse(s) == s.json

\* Date.prototype.toISOString and new Date(isoString)
ToISOString(t) == [iso |-> t]

ParseDate(s) == s.iso

\* String.prototype.toLowerCase on the names of the model
ToLowerCase(s) ==
    CASE s = "Acme" -> "acme"
      [] s = "ACME" -> "acme"
      [] s = "techmart electronics" -> "techmart electronics"
      [] s = "TechMart Electronics" -> "techmart electronics"
      [] s = "QuickFix Plumbing Services" -> "quickfix plumbing services"
      [] s = "StreamFlex Entertainment" -> "streamflex entertainment"
      [] s = "Unknown Organization" -> "unknown organization"
      [] s = "Broken kettle" -> "broken kettle"
      [] s = "Late parcel" -> "late parcel"
      [] s = "It leaks" -> "it leaks"
      [] s = "The KETTLE never came" -> "the kettle never came"
      [] s = "KETTLE" -> "kettle"
      [] s = "TechMart" -> "techmart"
      [] OTHER -> s

\* String.prototype.includes on the lower-cased texts of the model
Includes(text, part) ==
    \/ part = ""
    \/ part = text
    \/ /\ part = "kettle"
       /\ text \in {"broken kettle", "the kettle never came"}
    \/ /\ part = "techmart"
       /\ text = "techmart electronics"

\* String.prototype.trim on the names of the model
Trim(s) ==
    IF s = " techmart electronics" THEN "techmart electronics" ELSE s

\* Object.assign(target, source) and the object spread {...a, ...b}
ObjectAssign(target, source) ==
    [f \in (DOMAIN target) \cup (DOMAIN source) |->
        IF f \in DOMAIN source THEN source[f] ELSE target[f]]

Range(s) == {s[i] : i \in 1..Len(s)}

Ids(s) == {s[i].id : i \in 1..Len(s)}

\* Array.prototype.find as an index: the first index whose element carries
\* the id, 0 if none
FindIndex(s, id) ==
    IF \E i \in 1..Len(s) : s[i].id = id
    THEN CHOOSE i \in 1..Len(s) :
            s[i].id = id /\ \A j \in 1..(i - 1) : s[j].id # id
    ELSE 0

\* organizations.find(o => o.id === id), as an index
OrgIndex(orgs, id) == FindIndex(orgs, id)

\* a variant of the search whose test is true of every complaint
ComplaintIndexOfFirst(cs, id) == IF cs = <<>> THEN 0 ELSE 1

\* complaints.find(c => c.id === complaintId), as an index
ComplaintIndex(cs, id) == FindIndex(cs, id)

\* ComplaintTracker.getOrganizationName
getOrganizationName(orgs, organizationId) ==
    LET k == OrgIndex(orgs, organizationId)
    IN  IF k # 0 THEN orgs[k].name ELSE "Unknown Organization"

\* the default organizations written when none are saved
DefaultOrganizations ==
    << [id |-> "techmart", name |-> "TechMart Electronics", type |-> "Retailer",
        contactEmail |-> "complaints@techmart.co.uk",
        responseTimedays |-> 30, escalationTimedays |-> 60],
       [id |-> "quickfix", name |-> "QuickFix Plumbing Services",
        type |-> "Service Provider",
        contactEmail |-> "support@quickfixplumbing.co.uk",
        responseTimedays |-> 14, escalationTimedays |-> 28],
       [id |-> "streamflex", name |-> "StreamFlex Entertainment",
        type |-> "Subscription Service",
        contactEmail |-> "customer.service@streamflex.co.uk",
        responseTimedays |-> 21, escalationTimedays |-> 42] >>

\* the parsed content of a storage key, [] when the key holds nothing
StoredArray(item) == IF item = NoItem THEN <<>> ELSE JSONParse(item)

\* localStorage.setItem: the new content of a key when the write succeeds
\* (ok) or throws (quota exceeded, storage unavailable)
SetItem(old, value, ok) == IF ok THEN JSONStringify(value) ELSE old

\* a write may throw while the budget of failing writes lasts
MayWrite(ok) == ok \/ failures < MaxFailures

\* the count of thrown writes after one write
Wrote(ok) == IF ok THEN failures ELSE failures + 1

\* two writes of one handler
MayWriteBoth(ok1, ok2) ==
    failures + (IF ok1 THEN 0 ELSE 1) + (IF ok2 THEN 0 ELSE 1) <= MaxFailures

WroteBoth(ok1, ok2) ==
    failures + (IF ok1 THEN 0 ELSE 1) + (IF ok2 THEN 0 ELSE 1)

\* every id some record of the model carries
DocIds(part) == IF IsArray(part) THEN Ids(part.array) ELSE {}

UsedComplaintIds ==
    Ids(complaints) \cup Ids(StoredArray(lsComplaints))
        \cup (IF exported = NoDoc THEN {} ELSE DocIds(exported.complaints))
        \cup (IF otherTab = NoTab THEN {} ELSE Ids(otherTab.complaints))

UsedOrgIds ==
    Ids(organizations) \cup Ids(StoredArray(lsOrganizations))
        \cup (IF exported = NoDoc THEN {} ELSE DocIds(exported.organizations))

ComplaintIdPool == <<"complaint_1", "complaint_2", "complaint_3",
                     "complaint_4", "complaint_5", "complaint_6",
                     "complaint_7", "complaint_8">>

OrgIdPool == <<"org_1", "org_2", "org_3", "org_4", "org_5", "org_6", "org_7",
               "org_8">>

-----------------------------------------------------------------------------
(* The tracker's display: ComplaintTracker *)

\* a variant of the overdue test that counts the deadline instant itself
isComplaintOverdueFromDeadline(complaint, t) ==
    IF "deadline" \notin DOMAIN complaint THEN FALSE
    ELSE t >= ParseDate(complaint.deadline)

\* ComplaintTracker.isComplaintOverdue and ComplaintManager.isComplaintOverdue
\* when new Date() reads t
isComplaintOverdue(complaint, t) ==
    IF "deadline" \notin DOMAIN complaint THEN FALSE
    ELSE t > ParseDate(complaint.deadline)

\* Math.abs
Abs(x) == IF x < 0 THEN 0 - x ELSE x

\* Math.ceil(n / d) for n >= 0 and d > 0
CeilDiv(n, d) == (n + d - 1) \div d

\* a variant of the day count that rounds down
calculateDaysElapsedRoundingDown(createdDate, t) ==
    Abs(t - ParseDate(createdDate)) \div DayTicks

\* ComplaintTracker.calculateDaysElapsed and
\* ComplaintManager.calculateDaysElapsed when new Date() reads t
calculateDaysElapsed(createdDate, t) ==
    CeilDiv(Abs(t - ParseDate(createdDate)), DayTicks)

\* the statusPriority table of renderComplaints, undefined || 0 for the rest
statusPriority(status) ==
    CASE status = "escalation" -> 6
      [] status = "response-due" -> 5
      [] status = "in-progress" -> 4
      [] status = "acknowledged" -> 3
      [] status = "submitted" -> 2
      [] status = "resolved" -> 1
      [] OTHER -> 0

\* the comparator of renderComplaints when its new Date() reads t: negative
\* when a is shown before b
Compare(a, b, t) ==
    IF isComplaintOverdue(a, t) /\ ~isComplaintOverdue(b, t) THEN 0 - 1
    ELSE IF ~isComplaintOverdue(a, t) /\ isComplaintOverdue(b, t) THEN 1
    ELSE IF statusPriority(a.status) # statusPriority(b.status)
    THEN statusPriority(b.status) - statusPriority(a.status)
    ELSE ParseDate(b.createdDate) - ParseDate(a.createdDate)

\* a variant of the insertion that also moves x past the elements the
\* comparator holds equal to it
RECURSIVE InsertSortedPastEqual(_, _, _)
InsertSortedPastEqual(sorted, x, t) ==
    IF sorted = <<>> THEN <<x>>
    ELSE LET last == sorted[Len(sorted)]
         IN  IF Compare(last, x, t) >= 0
             THEN Append(InsertSortedPastEqual(
                             SubSeq(sorted, 1, Len(sorted) - 1), x, t), last)
             ELSE Append(sorted, x)

\* one insertion of the sort: x moves left past every element that the
\* comparator, reading the clock at t, puts after it
RECURSIVE InsertSorted(_, _, _)
InsertSorted(sorted, x, t) ==
    IF sorted = <<>> THEN <<x>>
    ELSE LET last == sorted[Len(sorted)]
         IN  IF Compare(last, x, t) > 0
             THEN Append(InsertSorted(SubSeq(sorted, 1, Len(sorted) - 1),
                                      x, t), last)
             ELSE Append(sorted, x)

\* Array.prototype.sort with the comparator of renderComplaints, a stable
\* insertion sort on the short arrays of the page.  The comparator reads the
\* clock at every comparison: the insertions before the k-th read t1, the
\* k-th and later ones t2
RECURSIVE SortPrefix(_, _, _, _, _)
SortPrefix(s, n, t1, t2, k) ==
    IF n = 0 THEN <<>>
    ELSE InsertSorted(SortPrefix(s, n - 1, t1, t2, k), s[n],
                      IF n < k THEN t1 ELSE t2)

sortedComplaints(s, t1, t2, k) == SortPrefix(s, Len(s), t1, t2, k)

-----------------------------------------------------------------------------

\* ComplaintManager.loadRecentComplaints on the dashboard: this.complaints
\* is sorted in place, newest createdDate first, before the first three
\* are shown
RECURSIVE InsertByDate(_, _)
InsertByDate(sorted, x) ==
    IF sorted = <<>> THEN <<x>>
    ELSE LET last == sorted[Len(sorted)]
         IN  IF ParseDate(x.createdDate) - ParseDate(last.createdDate) > 0
             THEN Append(InsertByDate(SubSeq(sorted, 1, Len(sorted) - 1), x),
                         last)
             ELSE Append(sorted, x)

RECURSIVE loadRecentComplaints(_)
loadRecentComplaints(cs) ==
    IF cs = <<>> THEN <<>>
    ELSE InsertByDate(loadRecentComplaints(SubSeq(cs, 1, Len(cs) - 1)),
                      cs[Len(cs)])

\* ComplaintTracker.currentFilters as the constructor and clearFilters set it
NoFilters == [search |-> "", status |-> "", organization |-> ""]

\* a variant of the filter test that keeps a complaint passing any one filter
MatchesAnyFilter(complaint, orgs, filters) ==
    \/ /\ filters.search # ""
       /\ LET searchTerm == ToLowerCase(filters.search)
          IN  \/ Includes(ToLowerCase(complaint.title), searchTerm)
              \/ Includes(ToLowerCase(complaint.description), searchTerm)
              \/ Includes(ToLowerCase(getOrganizationName(orgs,
                              complaint.organizationId)), searchTerm)
    \/ filters.status # "" /\ complaint.status = filters.status
    \/ /\ filters.organization # ""
       /\ complaint.organizationId = filters.organization
    \/ filters = NoFilters

\* the callback of this.complaints.filter in applyFilters
MatchesFilters(complaint, orgs, filters) ==
    /\ filters.search # "" =>
         LET searchTerm == ToLowerCase(filters.search)
             orgName == ToLowerCase(getOrganizationName(orgs,
                                        complaint.organizationId))
         IN  \/ Includes(ToLowerCase(complaint.title), searchTerm)
             \/ Includes(ToLowerCase(complaint.description), searchTerm)
             \/ Includes(orgName, searchTerm)
    /\ ~(filters.status # "" /\ complaint.status # filters.status)
    /\ ~(filters.organization # ""
           /\ complaint.organizationId # filters.organization)

\* Array.prototype.filter with that callback
FilterComplaints(cs, orgs, filters) ==
    LET Keep(c) == MatchesFilters(c, orgs, filters)
    IN  SelectSeq(cs, Keep)

\* what createComplaintCard puts on a card when new Date() reads t: the
\* overdue mark, the days elapsed, and whether the escalate and the resolve
\* button are there
createComplaintCard(complaint, t) ==
    [id |-> complaint.id,
     overdue |-> isComplaintOverdue(complaint, t),
     daysElapsed |-> calculateDaysElapsed(complaint.createdDate, t),
     escalate |-> isComplaintOverdue(complaint, t)
                     /\ complaint.status # "resolved",
     resolve |-> complaint.status # "resolved"]

\* the closed details modal
NoModal == [complaintId |-> "", escalate |-> FALSE, resolve |-> FALSE]

\* the tracker of a page that is not the tracking page
NoTracker ==
    [currentFilters |-> NoFilters, filteredComplaints |-> <<>>,
     cards |-> <<>>, modal |-> NoModal]

\* applyFilters followed by renderComplaints: this.filteredComplaints, kept
\* as the ids of the complaints it refers to, is filtered from the
\* collection and then sorted in place, and a card is built for each
\* element, the clock reading t2 by then
renderComplaints(cs, orgs, filters, t1, t2, k, modal) ==
    LET sorted == sortedComplaints(FilterComplaints(cs, orgs, filters),
                                   t1, t2, k)
    IN  [currentFilters |-> filters,
         filteredComplaints |-> [i \in 1..Len(sorted) |-> sorted[i].id],
         cards |-> [i \in 1..Len(sorted) |->
                       createComplaintCard(sorted[i], t2)],
         modal |-> modal]

-----------------------------------------------------------------------------
(* The complaint form wizard: ComplaintFormManager *)

\* the required fields of the form, in the order handleFormSubmission
\* lists them
RequiredFields ==
    <<"organization", "full-name", "email", "complaint-title",
      "complaint-description", "desired-outcome", "confirm-accuracy">>

FieldIds == Range(RequiredFields)

\* the required fields each step of the wizard shows: 'Select Organization',
\* 'Your Details', 'Complaint Details', 'Review'
StepFields(step) ==
    CASE step = 1 -> {"organization"}
      [] step = 2 -> {"full-name", "email"}
      [] step = 3 -> {"complaint-title", "complaint-description",
                      "desired-outcome"}
      [] OTHER -> {"confirm-accuracy"}

\* this.totalSteps
totalSteps == 4

\* the value of an untouched field: unchecked for the checkbox, empty for
\* the others.  A formData entry never saved is undefined, which every use
\* in the form treats as it treats this value
Blank(field) == IF field = "confirm-accuracy" THEN [checked |-> FALSE]
                ELSE [value |-> ""]

\* the values the user gives a field
FieldValues(field) ==
    CASE field = "confirm-accuracy" ->
             {[checked |-> FALSE], [checked |-> TRUE]}
      [] field = "organization" -> {[value |-> ""], [value |-> "techmart"]}
      [] field = "full-name" -> {[value |-> ""], [value |-> "Test User"]}
      [] field = "email" -> {[value |-> ""], [value |-> "test@example.com"]}
      [] field = "complaint-title" ->
             {[value |-> ""], [value |-> "Broken kettle"]}
      [] field = "complaint-description" ->
             {[value |-> ""], [value |-> "It leaks"]}
      [] OTHER -> {[value |-> ""], [value |-> "A refund"]}

\* !this.formData[field] is false
Truthy(v) == v \notin {[checked |-> FALSE], [value |-> ""]}

\* the empty form
BlankForm == [f \in FieldIds |-> Blank(f)]

\* no submission waits for its timer
NoPending == [timer |-> "none"]

\* the delay handleFormSubmission gives the creation, in seconds
SubmitDelaySeconds == 1

\* a submission waits for its timer with the object built from the form
Pending(complaintData) ==
    [timer |-> "submit", complaintData |-> complaintData,
     in |-> SubmitDelaySeconds]

\* the complaint is created and the redirect to the tracking page waits;
\* the submit button stays disabled
Redirecting == [timer |-> "redirect"]

\* no key has been pressed in the current step yet
NoInput == 0 - 1

\* the auto-save interval of setupAutoSave in seconds, and the wait of the
\* test 'Form auto-save works'
AutoSaveSeconds == 30

TestWaitSeconds == 1

\* the form of a page that is not the form page, and the form as the
\* constructor leaves it: no field carries aria-invalid and an error
\* message, the progress indicator shows the first step
NoForm ==
    [currentStep |-> 1, fields |-> BlankForm, formData |-> BlankForm,
     invalid |-> {}, progress |-> 1,
     pending |-> NoPending, sinceInput |-> NoInput,
     autoSaveIn |-> AutoSaveSeconds]

\* the form as the constructor and restoreDraft leave it: the draft, when
\* there is one and the user confirms, becomes formData and fills the fields
restoreDraft(item, confirmed) ==
    IF item # NoItem /\ confirmed
    THEN [NoForm EXCEPT !.formData = JSONParse(item),
                        !.fields = JSONParse(item)]
    ELSE NoForm

\* the fields of the current step copied to formData by saveCurrentStepData
StepData(f) ==
    [id \in FieldIds |->
        IF id \in StepFields(f.currentStep) THEN f.fields[id]
        ELSE f.formData[id]]

\* a validity check that accepts the empty value
checkValidityOfAnything(v) == TRUE

\* field.checkValidity() of a required field: a value is there, the box is
\* checked (every value the model types has the format its field asks for)
checkValidity(v) == Truthy(v)

\* the required fields of the step shown that fail checkValidity:
\* validateCurrentStep calls showFieldError for each of them
InvalidFields(f) ==
    {id \in StepFields(f.currentStep) : ~checkValidity(f.fields[id])}

\* one valid field is enough
validateAnyField(f) ==
    \E id \in StepFields(f.currentStep) : checkValidity(f.fields[id])

\* ComplaintFormManager.validateCurrentStep
validateCurrentStep(f) == InvalidFields(f) = {}

\* only the box of the review step is looked at
missingFieldsOfReviewStep(data) ==
    LET IsMissing(field) ==
            field = "confirm-accuracy" /\ ~Truthy(data[field])
    IN  SelectSeq(RequiredFields, IsMissing)

\* the required fields handleFormSubmission finds missing in formData
missingFields(data) ==
    LET IsMissing(field) == ~Truthy(data[field])
    IN  SelectSeq(RequiredFields, IsMissing)

\* the object handleFormSubmission builds from formData (the optional
\* fields of the form, which the model leaves untouched, are left out)
FormComplaintData(data) ==
    [organizationId |-> data["organization"].value,
     title |-> data["complaint-title"].value,
     description |-> data["complaint-description"].value,
     desiredOutcome |-> data["desired-outcome"].value,
     contactDetails |-> [fullName |-> data["full-name"].value,
                         email |-> data["email"].value]]

-----------------------------------------------------------------------------

(* Voice navigation: AccessibilityManager *)

\* this.maxRetryAttempts
maxRetryAttempts == 10

\* the voice navigation of a page just loaded, in a browser that has speech
\* recognition: the button addVoiceNavigationButton creates, the flags of
\* setupVoiceNavigationCommands, the recognizer idle, the timer that
\* restores voice navigation waiting when the stored settings say active.
\* stored is voiceNavigationActive of localStorage['accessibility-settings'],
\* timers counts the restart timeouts of onerror and of
\* restartRecognitionWithDelay that have not fired yet
VoiceLoaded(stored) ==
    [label |-> "Toggle voice navigation",
     isVoiceNavigationActive |-> FALSE,
     recognitionActive |-> FALSE,
     recognitionRetryCount |-> 0,
     recognizer |-> "idle",
     timers |-> 0,
     restore |-> stored,
     stored |-> stored]

\* AccessibilityManager.startVoiceRecognition: SpeechRecognition.start()
\* throws InvalidStateError while the recognizer has not ended
startVoiceRecognition(v) ==
    IF ~v.isVoiceNavigationActive \/ v.recognitionActive THEN v
    ELSE IF v.recognizer = "idle"
    THEN [v EXCEPT !.recognitionActive = TRUE, !.recognizer = "listening"]
    ELSE [v EXCEPT !.recognitionActive = FALSE]

\* AccessibilityManager.saveSettings: the failure of the write is caught
saveSettings(v, active, ok) == [v EXCEPT !.stored = IF ok THEN active ELSE @]

\* AccessibilityManager.startVoiceNavigation
startVoiceNavigation(v, ok) ==
    startVoiceRecognition(
        [saveSettings(v, TRUE, ok) EXCEPT
            !.label = "Stop voice navigation",
            !.isVoiceNavigationActive = TRUE,
            !.recognitionRetryCount = 0])

\* AccessibilityManager.stopVoiceNavigation: SpeechRecognition.stop() ends
\* the session that is running
stopVoiceNavigation(v, ok) ==
    [saveSettings(v, FALSE, ok) EXCEPT
        !.label = "Start voice navigation",
        !.isVoiceNavigationActive = FALSE,
        !.recognitionActive = FALSE,
        !.recognitionRetryCount = 0,
        !.recognizer = IF @ = "listening" THEN "ending" ELSE @]

\* what the voice handlers leave alone
VoiceFrame ==
    UNCHANGED <<now, page, hasCM, complaints, organizations, lsComplaints,
                lsOrganizations, exported, tracker, formManager, lsDraft,
                otherTab>>

\* a click on the voice navigation button, or Ctrl+Shift+V
clickVoiceButton(ok) ==
    /\ MayWrite(ok)
    /\ failures' = Wrote(ok)
    /\ IF ~voice.isVoiceNavigationActive
       THEN /\ voice' = startVoiceNavigation(voice, ok)
            /\ ev' = [op |-> "click", res |-> "start"]
       ELSE /\ voice' = stopVoiceNavigation(voice, ok)
            /\ ev' = [op |-> "click", res |-> "stop"]
    /\ VoiceFrame

\* the timer of addVoiceNavigationButton fires a second after the load
restoreTimer(ok) ==
    /\ voice.restore
    /\ MayWrite(ok)
    /\ failures' = Wrote(ok)
    /\ voice' = startVoiceNavigation([voice EXCEPT !.restore = FALSE], ok)
    /\ ev' = [op |-> "restoreTimer", res |-> "start"]
    /\ VoiceFrame

\* a timeout of onerror or of restartRecognitionWithDelay fires
restartTimer ==
    /\ voice.timers > 0
    /\ voice' = startVoiceRecognition([voice EXCEPT !.timers = @ - 1])
    /\ ev' = [op |-> "restartTimer", res |-> "fired"]
    /\ UNCHANGED failures
    /\ VoiceFrame

\* AccessibilityManager.restartRecognitionWithDelay
restartRecognitionWithDelay(v) ==
    IF v.isVoiceNavigationActive THEN [v EXCEPT !.timers = @ + 1] ELSE v

\* navigationRecognition.onresult: a transcript ignored as a duplicate or
\* as too short, or a command processed; the session ends after it
onresult(processed) ==
    /\ voice.recognizer = "listening"
    /\ voice.isVoiceNavigationActive => voice.timers < MaxTimers
    /\ voice' =
         restartRecognitionWithDelay(
             [voice EXCEPT
                 !.recognizer = "ending",
                 !.recognitionRetryCount = IF processed THEN 0 ELSE @])
    /\ ev' = [op |-> "onresult",
              res |-> IF processed THEN "processed" ELSE "ignored"]
    /\ UNCHANGED failures
    /\ VoiceFrame

\* the errors of the recognizer
RecognitionErrors == {"not-allowed", "no-speech", "network", "aborted"}

\* navigationRecognition.onerror; the session ends after it
onerror(error, ok) ==
    /\ voice.recognizer = "listening"
    /\ LET v == [voice EXCEPT !.recognitionActive = FALSE,
                              !.recognizer = "ending"]
       IN  IF error = "not-allowed"
           THEN /\ MayWrite(ok)
                /\ failures' = Wrote(ok)
                /\ voice' = stopVoiceNavigation(
                                [saveSettings(v, FALSE, ok) EXCEPT
                                    !.isVoiceNavigationActive = FALSE], ok)
                /\ ev' = [op |-> "onerror", res |-> "denied"]
           ELSE IF v.recognitionRetryCount >= maxRetryAttempts
           THEN /\ ok
                /\ voice' = v
                /\ ev' = [op |-> "onerror", res |-> "paused"]
                /\ UNCHANGED failures
           ELSE /\ ok
                /\ v.isVoiceNavigationActive => v.timers < MaxTimers
                /\ voice' =
                     [v EXCEPT
                         !.recognitionRetryCount = @ + 1,
                         !.timers = IF v.isVoiceNavigationActive
                                    THEN @ + 1 ELSE @]
                /\ ev' = [op |-> "onerror", res |-> "retry"]
                /\ UNCHANGED failures
    /\ VoiceFrame

\* navigationRecognition.onend
onend ==
    /\ voice.recognizer \in {"listening", "ending"}
    /\ LET v == [voice EXCEPT !.recognitionActive = FALSE,
                              !.recognizer = "idle"]
           again == /\ v.isVoiceNavigationActive
                    /\ v.recognitionRetryCount < maxRetryAttempts
       IN  /\ again => v.timers < MaxTimers
           /\ voice' = IF again THEN restartRecognitionWithDelay(v) ELSE v
    /\ ev' = [op |-> "onend", res |-> "ended"]
    /\ UNCHANGED failures
    /\ VoiceFrame

-----------------------------------------------------------------------------

(* Page load: the constructors of the managers *)

\* ComplaintManager.loadComplaints
loadComplaints(item) == StoredArray(item)

\* ComplaintManager.loadOrganizations: the saved array, else the defaults
loadOrganizations(item) ==
    IF item # NoItem THEN JSONParse(item) ELSE DefaultOrganizations

\* ComplaintTracker.loadData / AdminManager.loadData without the manager
loadDataFallback(item) == StoredArray(item)

Init ==
    /\ now = 0
    /\ page = "index"
    /\ hasCM = TRUE
    /\ complaints = <<>>
    /\ organizations = DefaultOrganizations
    /\ lsComplaints = NoItem
    /\ lsOrganizations = JSONStringify(DefaultOrganizations)
    /\ exported = NoDoc
    /\ tracker = NoTracker
    /\ formManager = NoForm
    /\ lsDraft = NoItem
    /\ voice = VoiceLoaded(FALSE)
    /\ otherTab = NoTab
    /\ failures = 0
    /\ ev = [op |-> "load", res |-> "ok"]

\* navigation to page p; cm tells whether the page carries ComplaintManager.
\* Leaving the form page fires its beforeunload handler, which runs
\* saveCurrentStepData; then the constructors of page p run: the managers
\* load the arrays, the tracker renders its cards, the form offers the
\* draft it finds
PageLoad(p, cm) ==
    /\ p = "index" => cm
    /\ page' = p
    /\ hasCM' = cm
    /\ \E okD \in BOOLEAN, okS \in BOOLEAN, confirmed \in BOOLEAN :
         /\ page # "create" => okD
         /\ ~(cm /\ lsOrganizations = NoItem) => okS
         /\ MayWriteBoth(okD, okS)
         /\ failures' = WroteBoth(okD, okS)
         /\ lsDraft' = IF page = "create"
                       THEN SetItem(lsDraft, StepData(formManager), okD)
                       ELSE lsDraft
         /\ ~(p = "create" /\ lsDraft' # NoItem) => ~confirmed
         /\ formManager' = IF p = "create" THEN restoreDraft(lsDraft', confirmed)
                     ELSE NoForm
         /\ lsOrganizations' =
               IF cm /\ lsOrganizations = NoItem
               THEN SetItem(lsOrganizations, DefaultOrganizations, okS)
               ELSE lsOrganizations
    /\ IF cm
       THEN /\ complaints' =
                 IF p = "index"
                 THEN loadRecentComplaints(loadComplaints(lsComplaints))
                 ELSE loadComplaints(lsComplaints)
            /\ organizations' = loadOrganizations(lsOrganizations)
       ELSE /\ complaints' =
                 IF p \in {"track", "admin"}
                 THEN loadDataFallback(lsComplaints) ELSE <<>>
            /\ organizations' =
                 IF p \in {"track", "admin", "create"}
                 THEN loadDataFallback(lsOrganizations) ELSE <<>>
    /\ tracker' = IF p = "track"
                  THEN renderComplaints(complaints', organizations',
                                        NoFilters, now, now, 1, NoModal)
                  ELSE NoTracker
    /\ voice' = VoiceLoaded(voice.stored)
    /\ ev' = [op |-> "load", res |-> "ok"]
    /\ UNCHANGED <<now, lsComplaints, exported, otherTab>>

-----------------------------------------------------------------------------
(* Inputs *)

\* the first id of a pool that no record carries: generateId, generateOrgId,
\* generateComplaintId ('complaint_' + Date.now() + '_' + random) never
\* repeat an id
FreshId(pool, used) ==
    pool[CHOOSE i \in 1..Len(pool) :
            pool[i] \notin used /\ \A j \in 1..(i - 1) : pool[j] \in used]

HasFresh(pool, used) == \E i \in 1..Len(pool) : pool[i] \notin used

\* an organization id no organization carries
GhostOrg == "org_gone"

\* a complaint id no complaint carries
GhostComplaint == "complaint_gone"

Titles == {"Broken kettle"}

\* the object handleFormSubmission builds from the form, the first
\* organization of the list selected, or one that is gone
ComplaintData(orgs) ==
    [organizationId : {orgs[i].id : i \in {1} \cap DOMAIN orgs}
                          \cup {GhostOrg},
     title : Titles,
     description : {"It leaks"}]

\* the statuses the callers of updateComplaint write
UpdateStatuses == {"escalation", "resolved"}

\* the partial records passed to updateComplaint
Updates == [status : UpdateStatuses]

\* how far the clock moves between two new Date() calls of one handler
ClockSteps == {0, 1}

-----------------------------------------------------------------------------
(* Complaints *)

\* Date.prototype.setDate(getDate() + days): the same time of day, days later
SetDate(t, days) == t + days * DayTicks

\* the complaint object createComplaint and createComplaintFallback build:
\* created at time t1, the deadline computed from a second new Date() at t2
NewComplaint(id, complaintData, orgs, t1, t2) ==
    LET complaint ==
            ObjectAssign(ObjectAssign([id |-> id], complaintData),
                         [createdDate |-> ToISOString(t1),
                          status |-> "submitted",
                          updates |-> <<>>])
        k == OrgIndex(orgs, complaintData.organizationId)
    IN  IF k # 0
        THEN ObjectAssign(complaint,
                 [deadline |->
                     ToISOString(SetDate(t2, orgs[k].responseTimedays))])
        ELSE complaint

\* a saveComplaints that keeps the stored complaints the writer does not hold
saveComplaintsMerging(cs, ok) ==
    LET Foreign(c) == c.id \notin Ids(cs)
    IN  SetItem(lsComplaints,
                SelectSeq(StoredArray(lsComplaints), Foreign) \o cs, ok)

\* ComplaintManager.saveComplaints: the write, its failure caught and logged
saveComplaints(cs, ok) == SetItem(lsComplaints, cs, ok)

\* ComplaintManager.createComplaint
createComplaint(complaintData, d, ok) ==
    /\ hasCM
    /\ page = "create"
    /\ Len(complaints) < MaxComplaints
    /\ now + d <= MaxTime
    /\ MayWrite(ok)
    /\ HasFresh(ComplaintIdPool, UsedComplaintIds)
    /\ LET id == FreshId(ComplaintIdPool, UsedComplaintIds)
           complaint == NewComplaint(id, complaintData, organizations,
                                     now, now + d)
       IN  /\ complaints' = Append(complaints, complaint)
           /\ lsComplaints' = saveComplaints(complaints', ok)
           /\ ev' = [op |-> "createComplaint", res |-> "returned"]
    /\ now' = now + d
    /\ failures' = Wrote(ok)
    /\ UNCHANGED <<page, voice, otherTab, hasCM, organizations, lsOrganizations, exported,
                   tracker>>

\* a fallback that stores the complaint without computing a deadline
createComplaintFallbackStoresNoDeadline(complaintData, d, ok) ==
    SetItem(lsComplaints,
            Append(StoredArray(lsComplaints),
                   NewComplaint(FreshId(ComplaintIdPool, UsedComplaintIds),
                                complaintData, <<>>, now, now + d)),
            ok)

\* what createComplaintFallback stores: the stored array read again, the
\* new complaint pushed to it, its deadline from the stored organizations
createComplaintFallbackStores(complaintData, d, ok) ==
    SetItem(lsComplaints,
            Append(StoredArray(lsComplaints),
                   NewComplaint(FreshId(ComplaintIdPool, UsedComplaintIds),
                                complaintData, StoredArray(lsOrganizations),
                                now, now + d)),
            ok)

\* ComplaintFormManager.createComplaintFallback, called by
\* handleFormSubmission when the page has no ComplaintManager; a throwing
\* write is caught by handleFormSubmission, which announces the error
createComplaintFallback(complaintData, d, ok) ==
    /\ ~hasCM
    /\ page = "create"
    /\ Len(StoredArray(lsComplaints)) < MaxComplaints
    /\ now + d <= MaxTime
    /\ MayWrite(ok)
    /\ HasFresh(ComplaintIdPool, UsedComplaintIds)
    /\ lsComplaints' = createComplaintFallbackStores(complaintData, d, ok)
    /\ ev' = [op |-> "createComplaintFallback",
              res |-> IF ok THEN "returned" ELSE "threw"]
    /\ now' = now + d
    /\ failures' = Wrote(ok)
    /\ UNCHANGED <<page, voice, otherTab, hasCM, complaints, organizations, lsOrganizations,
                   exported, tracker>>

\* how many log entries the complaints of an array hold in all
RECURSIVE LogEntries(_)
LogEntries(cs) ==
    IF cs = <<>> THEN 0 ELSE Len(Head(cs).updates) + LogEntries(Tail(cs))

\* the entry updateComplaint pushes to complaint.updates
UpdateEntry(t, updates) ==
    [date |-> ToISOString(t), type |-> "status_change", details |-> updates]

\* a variant of the update that also restarts the deadline at the update
ApplyUpdateRestartingDeadline(complaint, updates, t) ==
    LET merged == ObjectAssign(ObjectAssign(complaint, updates),
                               [deadline |-> ToISOString(t)])
    IN  ObjectAssign(merged,
            [updates |-> Append(merged.updates, UpdateEntry(t, updates))])

\* Object.assign(complaint, updates) followed by complaint.updates.push(...)
ApplyUpdate(complaint, updates, t) ==
    LET merged == ObjectAssign(complaint, updates)
    IN  ObjectAssign(merged,
            [updates |-> Append(merged.updates, UpdateEntry(t, updates))])

\* the collection after updateComplaint found the complaint at index k
UpdatedComplaints(cs, k, updates, t) ==
    [cs EXCEPT ![k] = ApplyUpdate(cs[k], updates, t)]

\* ComplaintManager.updateComplaint
updateComplaint(complaintId, updates, ok) ==
    /\ hasCM
    /\ page = "track"
    /\ LET k == ComplaintIndex(complaints, complaintId)
       IN  IF k = 0
           THEN /\ ok
                /\ ev' = [op |-> "updateComplaint", res |-> "false"]
                /\ UNCHANGED <<complaints, lsComplaints, failures>>
           ELSE /\ MayWrite(ok)
                /\ failures' = Wrote(ok)
                /\ complaints' = UpdatedComplaints(complaints, k, updates, now)
                /\ lsComplaints' = saveComplaints(complaints', ok)
                /\ ev' = [op |-> "updateComplaint", res |-> "true"]
    /\ UNCHANGED <<now, page, voice, otherTab, hasCM, organizations, lsOrganizations, exported,
                   tracker, formManager, lsDraft>>

\* Array.prototype.splice(index, 1)
RemoveAt(s, k) == SubSeq(s, 1, k - 1) \o SubSeq(s, k + 1, Len(s))

\* ComplaintManager.deleteComplaint
deleteComplaint(complaintId, ok) ==
    /\ hasCM
    /\ page = "track"
    /\ LET k == ComplaintIndex(complaints, complaintId)
       IN  IF k = 0
           THEN /\ ok
                /\ ev' = [op |-> "deleteComplaint", res |-> "false"]
                /\ UNCHANGED <<complaints, lsComplaints, failures>>
           ELSE /\ MayWrite(ok)
                /\ failures' = Wrote(ok)
                /\ complaints' = RemoveAt(complaints, k)
                /\ lsComplaints' = saveComplaints(complaints', ok)
                /\ ev' = [op |-> "deleteComplaint", res |-> "true"]
    /\ UNCHANGED <<now, page, voice, otherTab, hasCM, organizations, lsOrganizations, exported,
                   tracker, formManager, lsDraft>>

\* ComplaintTracker.updateComplaintStatus, reached from
\* escalateComplaintDirect ('escalation') and markComplaintResolvedDirect
\* ('resolved'), which return at once when the tracker does not hold the
\* id, the user confirming; modal is the details modal as the caller
\* leaves it when the update returns.  With the manager the handler is
\* updateComplaint, its failing write caught, then loadData takes the
\* manager's arrays again and applyFilters renders.  Without it the tracker
\* edits its own array and writes it: a throwing write leaves the handler
\* and its caller before loadData, applyFilters and the modal's hide
updateComplaintStatus(complaintId, newStatus, ok, modal) ==
    /\ page = "track"
    /\ IF ComplaintIndex(complaints, complaintId) = 0
       THEN /\ ok
            /\ ev' = [op |-> "updateComplaintStatus", res |-> "notfound"]
            /\ tracker' = [tracker EXCEPT !.modal = modal]
            /\ UNCHANGED <<complaints, organizations, lsComplaints, failures>>
       ELSE
       LET k == ComplaintIndex(complaints, complaintId)
           updates == [status |-> newStatus]
           changed == UpdatedComplaints(complaints, k, updates, now)
       IN  /\ MayWrite(ok)
           /\ failures' = Wrote(ok)
           /\ IF hasCM
              THEN /\ complaints' = changed
                   /\ lsComplaints' = saveComplaints(changed, ok)
                   /\ organizations' = organizations
              ELSE /\ lsComplaints' = SetItem(lsComplaints, changed, ok)
                   /\ complaints' =
                        IF ok THEN loadDataFallback(lsComplaints')
                        ELSE changed
                   /\ organizations' =
                        IF ok THEN loadDataFallback(lsOrganizations)
                        ELSE organizations
           /\ tracker' =
                IF hasCM \/ ok
                THEN renderComplaints(complaints', organizations',
                                      tracker.currentFilters, now, now, 1,
                                      modal)
                ELSE tracker
           /\ ev' = [op |-> "updateComplaintStatus",
                     res |-> IF hasCM \/ ok THEN "done" ELSE "threw"]
    /\ UNCHANGED <<now, page, voice, otherTab, hasCM, lsOrganizations, exported, formManager,
                   lsDraft>>

-----------------------------------------------------------------------------
(* The tracking page: ComplaintTracker's handlers *)

\* the values the search box, the status select and the organization select
\* are given
Searches == {"", "KETTLE", "TechMart"}

StatusFilters == {"", "submitted"}

OrganizationFilters == {"", "techmart"}

\* currentFilters after one control changed, or after 'clear filters'
FilterInputs(current) ==
    {[current EXCEPT !.search = v] : v \in Searches}
        \cup {[current EXCEPT !.status = v] : v \in StatusFilters}
        \cup {[current EXCEPT !.organization = v] : v \in OrganizationFilters}
        \cup {NoFilters}

\* ComplaintTracker.applyFilters as the listeners of the three controls and
\* clearFilters call it, currentFilters set to filters just before: the
\* collection is filtered, the result sorted in place and rendered.  The
\* clock moves by d while the sort runs, from its k-th insertion on
applyFilters(filters, d, k) ==
    /\ page = "track"
    /\ now + d <= MaxTime
    /\ k \in 1..(Len(complaints) + 1)
    /\ d = 0 => k = 1
    /\ tracker' = renderComplaints(complaints, organizations, filters,
                                   now, now + d, k, tracker.modal)
    /\ now' = now + d
    /\ ev' = [op |-> "applyFilters", res |-> "rendered"]
    /\ UNCHANGED <<page, voice, otherTab, hasCM, complaints, organizations, lsComplaints,
                   lsOrganizations, exported, formManager, lsDraft, failures>>

\* the card of a complaint as the page shows it now, if it shows one
ShownCards(complaintId) ==
    {tracker.cards[i] : i \in {j \in DOMAIN tracker.cards :
                                 tracker.cards[j].id = complaintId}}

\* ComplaintTracker.escalateComplaintDirect from the escalate button of a
\* card, the user confirming
escalateComplaintDirect(complaintId, ok) ==
    /\ tracker.modal = NoModal
    /\ \E card \in ShownCards(complaintId) : card.escalate
    /\ updateComplaintStatus(complaintId, "escalation", ok, tracker.modal)

\* ComplaintTracker.markComplaintResolvedDirect from the resolve button of a
\* card, the user confirming
markComplaintResolvedDirect(complaintId, ok) ==
    /\ tracker.modal = NoModal
    /\ \E card \in ShownCards(complaintId) : card.resolve
    /\ updateComplaintStatus(complaintId, "resolved", ok, tracker.modal)

\* ComplaintTracker.showComplaintDetails from a card or from the hash of
\* the address: the modal opens with its two buttons shown or hidden
showComplaintDetails(complaintId) ==
    /\ page = "track"
    /\ tracker.modal = NoModal
    /\ ComplaintIndex(complaints, complaintId) # 0
    /\ LET complaint == complaints[ComplaintIndex(complaints, complaintId)]
       IN  tracker' =
             [tracker EXCEPT !.modal =
                 [complaintId |-> complaintId,
                  escalate |-> isComplaintOverdue(complaint, now)
                                  /\ complaint.status # "resolved",
                  resolve |-> complaint.status # "resolved"]]
    /\ ev' = [op |-> "showComplaintDetails", res |-> "shown"]
    /\ UNCHANGED <<now, page, voice, otherTab, hasCM, complaints, organizations, lsComplaints,
                   lsOrganizations, exported, formManager, lsDraft, failures>>

\* ComplaintTracker.escalateComplaint from the escalate button of the modal,
\* which is hidden when escalateComplaintDirect returns
escalateComplaint(ok) ==
    /\ tracker.modal # NoModal
    /\ tracker.modal.escalate
    /\ updateComplaintStatus(tracker.modal.complaintId, "escalation", ok,
                             NoModal)

\* ComplaintTracker.markComplaintResolved from the resolve button of the
\* modal, which is hidden when markComplaintResolvedDirect returns
markComplaintResolved(ok) ==
    /\ tracker.modal # NoModal
    /\ tracker.modal.resolve
    /\ updateComplaintStatus(tracker.modal.complaintId, "resolved", ok,
                             NoModal)

\* the modal dismissed by its close button
hideModal ==
    /\ page = "track"
    /\ tracker.modal # NoModal
    /\ tracker' = [tracker EXCEPT !.modal = NoModal]
    /\ ev' = [op |-> "hideModal", res |-> "hidden"]
    /\ UNCHANGED <<now, page, voice, otherTab, hasCM, complaints, organizations, lsComplaints,
                   lsOrganizations, exported, formManager, lsDraft, failures>>

-----------------------------------------------------------------------------

(* The form page: ComplaintFormManager's handlers *)

\* the user types a value into a field of the step shown, or ticks the box
input(field, value) ==
    /\ page = "create"
    /\ field \in StepFields(formManager.currentStep)
    /\ formManager.fields[field] # value
    /\ formManager' = [formManager EXCEPT !.fields[field] = value,
                                          !.invalid = @ \ {field},
                                          !.sinceInput = 0]
    /\ ev' = [op |-> "input", res |-> "typed"]
    /\ UNCHANGED <<now, page, voice, otherTab, hasCM, complaints, organizations, lsComplaints,
                   lsOrganizations, exported, tracker, lsDraft, failures>>

\* ComplaintFormManager.goToStep from a Next or Back button or from
\* Alt+Arrow: a forward move validates the step shown; the move saves the
\* step shown, the failure of the draft write caught
goToStep(stepNumber, ok) ==
    /\ page = "create"
    /\ IF stepNumber < 1 \/ stepNumber > totalSteps
       THEN /\ ok
            /\ ev' = [op |-> "goToStep", res |-> "ignored"]
            /\ UNCHANGED <<formManager, lsDraft, failures>>
       ELSE IF stepNumber > formManager.currentStep
                  /\ ~validateCurrentStep(formManager)
       THEN /\ ok
            /\ formManager' =
                 [formManager EXCEPT
                     !.invalid = @ \cup InvalidFields(formManager)]
            /\ ev' = [op |-> "goToStep", res |-> "invalid"]
            /\ UNCHANGED <<lsDraft, failures>>
       ELSE /\ MayWrite(ok)
            /\ failures' = Wrote(ok)
            /\ lsDraft' = SetItem(lsDraft, StepData(formManager), ok)
            /\ formManager' =
                 [formManager EXCEPT !.formData = StepData(formManager),
                                     !.currentStep = stepNumber,
                                     !.progress = stepNumber,
                                     !.sinceInput = NoInput]
            /\ ev' = [op |-> "goToStep", res |-> "moved"]
    /\ UNCHANGED <<now, page, voice, otherTab, hasCM, complaints, organizations, lsComplaints,
                   lsOrganizations, exported, tracker>>

\* the interval of setupAutoSave fires: saveCurrentStepData
autoSave(ok) ==
    /\ page = "create"
    /\ formManager.autoSaveIn = 0
    /\ MayWrite(ok)
    /\ failures' = Wrote(ok)
    /\ lsDraft' = SetItem(lsDraft, StepData(formManager), ok)
    /\ formManager' =
         [formManager EXCEPT !.formData = StepData(formManager),
                             !.autoSaveIn = AutoSaveSeconds]
    /\ ev' = [op |-> "autoSave", res |-> "saved"]
    /\ UNCHANGED <<now, page, voice, otherTab, hasCM, complaints, organizations, lsComplaints,
                   lsOrganizations, exported, tracker>>

\* a second passes on the form page with no timer due
SecondPasses ==
    /\ page = "create"
    /\ formManager.autoSaveIn > 0
    /\ formManager.pending.timer = "submit" => formManager.pending.in > 0
    /\ formManager' =
         [formManager EXCEPT
             !.autoSaveIn = @ - 1,
             !.sinceInput = IF @ = NoInput \/ @ = TestWaitSeconds THEN @
                            ELSE @ + 1,
             !.pending = IF @.timer = "submit"
                         THEN [@ EXCEPT !.in = @ - 1] ELSE @]
    /\ ev' = [op |-> "wait", res |-> "second"]
    /\ UNCHANGED <<now, page, voice, otherTab, hasCM, complaints, organizations, lsComplaints,
                   lsOrganizations, exported, tracker, lsDraft, failures>>

\* a submit button that is never disabled
submitButtonNeverDisabled(f) == FALSE

\* submitButton.disabled: set when a submission is accepted, cleared when
\* its timer catches an error; a disabled submit button takes no click
\* and stops the implicit submission of the Enter key
submitButtonDisabled(f) == f.pending.timer # "none"

\* ComplaintFormManager.handleFormSubmission up to its setTimeout, from
\* the submit button or the Enter key while the submit button is enabled
handleFormSubmission(ok) ==
    /\ page = "create"
    /\ ~submitButtonDisabled(formManager)
    /\ IF ~validateCurrentStep(formManager)
       THEN /\ ok
            /\ formManager' =
                 [formManager EXCEPT
                     !.invalid = @ \cup InvalidFields(formManager)]
            /\ ev' = [op |-> "handleFormSubmission", res |-> "invalid"]
            /\ UNCHANGED <<lsDraft, failures>>
       ELSE LET data == StepData(formManager)
            IN  /\ MayWrite(ok)
                /\ failures' = Wrote(ok)
                /\ lsDraft' = SetItem(lsDraft, data, ok)
                /\ IF Len(missingFields(data)) > 0
                   THEN /\ formManager' =
                             [formManager EXCEPT !.formData = data]
                        /\ ev' = [op |-> "handleFormSubmission",
                                  res |-> "missing"]
                   ELSE /\ formManager' =
                             [formManager EXCEPT
                                 !.formData = data,
                                 !.pending =
                                     Pending(FormComplaintData(data))]
                        /\ ev' = [op |-> "handleFormSubmission",
                                  res |-> "submitting"]
    /\ UNCHANGED <<now, page, voice, otherTab, hasCM, complaints, organizations, lsComplaints,
                   lsOrganizations, exported, tracker>>

\* the timer of handleFormSubmission fires: the complaint is created and
\* the draft removed, or the fallback's write throws and the submit button
\* is enabled again
submitTimer(d, ok) ==
    /\ formManager.pending.timer = "submit"
    /\ formManager.pending.in = 0
    /\ \/ createComplaint(formManager.pending.complaintData, d, ok)
       \/ createComplaintFallback(formManager.pending.complaintData, d, ok)
    /\ lsDraft' = IF hasCM \/ ok THEN NoItem ELSE lsDraft
    /\ formManager' =
         [formManager EXCEPT
             !.pending = IF hasCM \/ ok THEN Redirecting ELSE NoPending]

\* the second timer of handleFormSubmission fires: window.location.href
\* is set to the tracking page, the form page unloads and the tracking
\* page loads
redirectTimer(cm) ==
    /\ page = "create"
    /\ formManager.pending.timer = "redirect"
    /\ PageLoad("track", cm)

-----------------------------------------------------------------------------

(* Organizations: AdminManager *)

\* what the administrator types into the organization form
FormNames == {"Acme", " techmart electronics"}

\* response time and escalation time: one pair in order, one equal
FormTimes == {<<1, 2>>, <<2, 2>>}

NewOrgType == "Retailer"

NewOrgEmail == "complaints@acme.example"

\* the values of the form fields org-id, org-name, org-type, org-email,
\* org-response-time, org-escalation-time: org-id is empty for a new
\* organization and is filled by editOrganization, with the type and the
\* e-mail address of the organization, for an edit
OrganizationForms(orgs) ==
    { [orgId |-> "", name |-> n, type |-> NewOrgType,
       contactEmail |-> NewOrgEmail,
       responseTime |-> t[1], escalationTime |-> t[2]]
      : n \in FormNames, t \in FormTimes }
    \cup
    UNION { { [orgId |-> orgs[i].id, name |-> n, type |-> orgs[i].type,
               contactEmail |-> orgs[i].contactEmail,
               responseTime |-> t[1], escalationTime |-> t[2]]
              : n \in FormNames \cup {orgs[i].name}, t \in FormTimes }
            : i \in 1..Len(orgs) }

\* the rows of the organization table the administrator acts on: the first
\* and the last
Rows(orgs) == {orgs[i].id : i \in {1, Len(orgs)} \cap DOMAIN orgs}

\* AdminManager.saveOrganizations: the write, its failure caught and
\* announced; with the manager present the same array is written again
saveOrganizations(orgs, ok) == SetItem(lsOrganizations, orgs, ok)

\* a variant of the validation that accepts equal times
OrganizationErrorAllowingEqual(orgData, orgs) ==
    IF orgData.escalationTimedays < orgData.responseTimedays
    THEN "org-escalation-time"
    ELSE IF \E i \in 1..Len(orgs) :
               /\ ToLowerCase(orgs[i].name) = ToLowerCase(orgData.name)
               /\ orgs[i].id # orgData.id
         THEN "org-name"
         ELSE ""

\* the validation of saveOrganization: which field is in error, "" if none
OrganizationError(orgData, orgs) ==
    IF orgData.escalationTimedays <= orgData.responseTimedays
    THEN "org-escalation-time"
    ELSE IF \E i \in 1..Len(orgs) :
               /\ ToLowerCase(orgs[i].name) = ToLowerCase(orgData.name)
               /\ orgs[i].id # orgData.id
         THEN "org-name"
         ELSE ""

\* the array after saveOrganization stored orgData: replaced in place when
\* the id exists, pushed at the end otherwise
StoredOrganization(orgs, orgData) ==
    LET k == OrgIndex(orgs, orgData.id)
    IN  IF k # 0 THEN [orgs EXCEPT ![k] = orgData] ELSE Append(orgs, orgData)

\* AdminManager.saveOrganization
saveOrganization(form, ok) ==
    /\ page = "admin"
    /\ HasFresh(OrgIdPool, UsedOrgIds)
    /\ LET orgData ==
             [id |-> IF form.orgId # "" THEN form.orgId
                     ELSE FreshId(OrgIdPool, UsedOrgIds),
              name |-> Trim(form.name),
              type |-> form.type,
              contactEmail |-> form.contactEmail,
              responseTimedays |-> form.responseTime,
              escalationTimedays |-> form.escalationTime]
           error == OrganizationError(orgData, organizations)
       IN  IF error # ""
           THEN /\ ok
                /\ ev' = [op |-> "saveOrganization", res |-> error]
                /\ UNCHANGED <<organizations, lsOrganizations, failures>>
           ELSE /\ MayWrite(ok)
                /\ Len(StoredOrganization(organizations, orgData)) <= MaxOrgs
                /\ organizations' = StoredOrganization(organizations, orgData)
                /\ lsOrganizations' = saveOrganizations(organizations', ok)
                /\ failures' = Wrote(ok)
                /\ ev' = [op |-> "saveOrganization",
                          res |-> IF OrgIndex(organizations, orgData.id) # 0
                                  THEN "updated" ELSE "created"]
    /\ UNCHANGED <<now, page, voice, otherTab, hasCM, complaints, lsComplaints, exported,
                   tracker, formManager, lsDraft>>

\* a variant of the removal that cuts the array at the organization
WithoutOrgAndFollowing(orgs, orgId) ==
    SubSeq(orgs, 1, OrgIndex(orgs, orgId) - 1)

\* Array.prototype.filter(o => o.id !== orgId)
WithoutOrg(orgs, orgId) == LET P(o) == o.id # orgId IN SelectSeq(orgs, P)

\* AdminManager.deleteOrganization, the user confirming
deleteOrganization(orgId, ok) ==
    /\ page = "admin"
    /\ orgId \in Ids(organizations)
    /\ MayWrite(ok)
    /\ organizations' = WithoutOrg(organizations, orgId)
    /\ lsOrganizations' = saveOrganizations(organizations', ok)
    /\ failures' = Wrote(ok)
    /\ ev' = [op |-> "deleteOrganization", res |-> "deleted"]
    /\ UNCHANGED <<now, page, voice, otherTab, hasCM, complaints, lsComplaints, exported,
                   tracker, formManager, lsDraft>>

-----------------------------------------------------------------------------
(* Export, import, clear *)

\* a document of the export format
Document(cs, orgs) ==
    [complaints |-> cs, organizations |-> orgs, version |-> "1.0.0"]

\* the object AdminManager.exportData serializes into the download
ExportDocument(cs, orgs) == Document(Array(cs), Array(orgs))

\* AdminManager.exportData; one export is followed per behaviour
exportData ==
    /\ page = "admin"
    /\ exported = NoDoc
    /\ exported' = JSONParse(JSONStringify(ExportDocument(complaints,
                                                         organizations)))
    /\ ev' = [op |-> "exportData", res |-> "exported"]
    /\ UNCHANGED <<now, page, voice, otherTab, hasCM, complaints, organizations, lsComplaints,
                   lsOrganizations, tracker, formManager, lsDraft, failures>>

\* an organization and a complaint as a foreign document carries them: the
\* document comes from another store of the application, so its ids are ids
\* this store may hold as well
DocOrg(name, response, escalation) ==
    [id |-> "techmart", name |-> name, type |-> "Retailer",
     contactEmail |-> "help@doc.example",
     responseTimedays |-> response, escalationTimedays |-> escalation]

DocComplaint ==
    [id |-> "complaint_1", organizationId |-> "techmart",
     title |-> "Late parcel", description |-> "It leaks",
     createdDate |-> ToISOString(0),
     deadline |-> ToISOString(SetDate(0, 1)),
     status |-> "submitted", updates |-> <<>>]

\* the complaint arrays and organization arrays of the foreign documents:
\* an organization whose escalation time is below its response time, and
\* two organizations whose names differ in case only
DocComplaintArrays == {Array(<<>>), Array(<<DocComplaint>>)}

DocOrganizationArrays ==
    {Array(<<>>),
     Array(<<DocOrg("Acme", 2, 1)>>),
     Array(<<DocOrg("Acme", 1, 2), DocOrg("ACME", 1, 2)>>)}

\* the documents of the wrong shape: a part absent, or not an array
MalformedDocuments ==
    {Document(Missing, Array(<<DocOrg("Acme", 1, 2)>>)),
     Document(NotArray, Array(<<DocOrg("Acme", 1, 2)>>)),
     Document(Array(<<DocComplaint>>), Missing),
     Document(Array(<<DocComplaint>>), NotArray)}

\* the documents a user may select for import
ImportDocuments ==
    {Document(cs, orgs) : cs \in DocComplaintArrays,
                          orgs \in DocOrganizationArrays}
        \cup MalformedDocuments

\* a variant of the validation that looks at the organizations only
ValidDocumentByOrganizations(data) == IsArray(data.organizations)

\* the validation of AdminManager.importData: both parts present and arrays
ValidDocument(data) == IsArray(data.complaints) /\ IsArray(data.organizations)

\* a variant of the first loop that keeps the id the document gives
RECURSIVE MergeOrganizationsKeepingIds(_, _, _)
MergeOrganizationsKeepingIds(orgs, incoming, used) ==
    IF incoming = <<>> THEN orgs
    ELSE LET newOrg == Head(incoming)
             exists == \E i \in 1..Len(orgs) :
                          ToLowerCase(orgs[i].name) = ToLowerCase(newOrg.name)
         IN  IF exists
             THEN MergeOrganizationsKeepingIds(orgs, Tail(incoming), used)
             ELSE MergeOrganizationsKeepingIds(Append(orgs, newOrg),
                                               Tail(incoming), used)

\* performImport's first loop: every organization of the document whose
\* name no organization merged so far carries, under a fresh id
RECURSIVE MergeOrganizations(_, _, _)
MergeOrganizations(orgs, incoming, used) ==
    IF incoming = <<>> THEN orgs
    ELSE LET newOrg == Head(incoming)
             exists == \E i \in 1..Len(orgs) :
                          ToLowerCase(orgs[i].name) = ToLowerCase(newOrg.name)
             id == FreshId(OrgIdPool, used)
         IN  IF exists
             THEN MergeOrganizations(orgs, Tail(incoming), used)
             ELSE MergeOrganizations(
                      Append(orgs, ObjectAssign(newOrg, [id |-> id])),
                      Tail(incoming), used \cup {id})

\* performImport's second loop: every complaint of the document, under a
\* fresh id
RECURSIVE MergeComplaints(_, _, _)
MergeComplaints(cs, incoming, used) ==
    IF incoming = <<>> THEN cs
    ELSE LET id == FreshId(ComplaintIdPool, used)
         IN  MergeComplaints(
                 Append(cs, ObjectAssign(Head(incoming), [id |-> id])),
                 Tail(incoming), used \cup {id})

\* AdminManager.performImport: the organizations merged, the complaints
\* merged, both saved.  saveOrganizations catches its own failure; anything
\* else thrown (forEach on a part that is no array, the write of the
\* complaints) leaves through the catch, with what was merged before it
\* left in memory.
performImport(data, okO, okC) ==
    IF ~IsArray(data.organizations)
    THEN /\ okO /\ okC
         /\ ev' = [op |-> "importData", res |-> "error"]
         /\ UNCHANGED <<complaints, organizations, lsComplaints,
                        lsOrganizations, failures>>
    ELSE LET merged == MergeOrganizations(organizations,
                                          data.organizations.array, UsedOrgIds)
         IN  /\ Len(merged) <= MaxOrgs
             /\ organizations' = merged
             /\ IF ~IsArray(data.complaints)
                THEN /\ okO /\ okC
                     /\ ev' = [op |-> "importData", res |-> "error"]
                     /\ UNCHANGED <<complaints, lsComplaints,
                                    lsOrganizations, failures>>
                ELSE /\ Len(complaints) + Len(data.complaints.array)
                          <= MaxComplaints
                     /\ MayWriteBoth(okO, okC)
                     /\ complaints' =
                          MergeComplaints(complaints, data.complaints.array,
                                          UsedComplaintIds)
                     /\ lsOrganizations' = saveOrganizations(merged, okO)
                     /\ lsComplaints' = SetItem(lsComplaints, complaints', okC)
                     /\ failures' = WroteBoth(okO, okC)
                     /\ ev' = [op |-> "importData",
                               res |-> IF okC THEN "imported" ELSE "error"]

\* AdminManager.importData, the file read and parsed, the user confirming:
\* a document of the wrong shape throws before performImport
importData(data, okO, okC) ==
    /\ page = "admin"
    /\ IF ~ValidDocument(data)
       THEN /\ okO /\ okC
            /\ ev' = [op |-> "importData", res |-> "invalid"]
            /\ UNCHANGED <<complaints, organizations, lsComplaints,
                           lsOrganizations, failures>>
       ELSE performImport(data, okO, okC)
    /\ UNCHANGED <<now, page, voice, otherTab, hasCM, exported, tracker, formManager, lsDraft>>

\* AdminManager.clearAllData, the user confirming and typing DELETE:
\* both keys are removed, the complaints emptied, the defaults reloaded and
\* saved; with the manager present the empty complaint array is written
clearAllData(okO, okC) ==
    /\ page = "admin"
    /\ MayWriteBoth(okO, okC)
    /\ ~hasCM => okC
    /\ complaints' = <<>>
    /\ organizations' = DefaultOrganizations
    /\ lsOrganizations' = SetItem(NoItem, DefaultOrganizations, okO)
    /\ lsComplaints' = IF hasCM THEN SetItem(NoItem, <<>>, okC) ELSE NoItem
    /\ failures' = WroteBoth(okO, okC)
    /\ lsDraft' = NoItem
    /\ ev' = [op |-> "clearAllData", res |-> "cleared"]
    /\ UNCHANGED <<now, page, voice, otherTab, hasCM, exported, tracker, formManager>>

\* the documents handed to ComplaintManager.importData: parts that are
\* absent or arrays
ManagerDocuments ==
    {data \in ImportDocuments :
        data.complaints # NotArray /\ data.organizations # NotArray}

\* ComplaintManager.importData: each part that is present replaces the
\* collection and is saved
managerImportData(data, okO, okC) ==
    /\ hasCM
    /\ page = "index"
    /\ MayWriteBoth(okO, okC)
    /\ data.complaints = Missing => okC
    /\ data.organizations = Missing => okO
    /\ IF data.complaints # Missing
       THEN /\ Len(data.complaints.array) <= MaxComplaints
            /\ complaints' = data.complaints.array
            /\ lsComplaints' = saveComplaints(complaints', okC)
       ELSE UNCHANGED <<complaints, lsComplaints>>
    /\ IF data.organizations # Missing
       THEN /\ Len(data.organizations.array) <= MaxOrgs
            /\ organizations' = data.organizations.array
            /\ lsOrganizations' = saveOrganizations(organizations', okO)
       ELSE UNCHANGED <<organizations, lsOrganizations>>
    /\ failures' = WroteBoth(okO, okC)
    /\ ev' = [op |-> "managerImportData", res |-> "true"]
    /\ UNCHANGED <<now, page, voice, otherTab, hasCM, exported, tracker, formManager, lsDraft>>

\* the application opened in a second browser whose local storage is empty
openSecondStore(p, cm, ok) ==
    /\ exported # NoDoc
    /\ p = "index" => cm
    /\ MayWrite(ok)
    /\ ~cm => ok
    /\ page' = p
    /\ hasCM' = cm
    /\ lsComplaints' = NoItem
    /\ complaints' = <<>>
    /\ organizations' = IF cm THEN loadOrganizations(NoItem) ELSE <<>>
    /\ lsOrganizations' =
         IF cm THEN SetItem(NoItem, DefaultOrganizations, ok) ELSE NoItem
    /\ failures' = Wrote(ok)
    /\ lsDraft' = NoItem
    /\ formManager' = NoForm
    /\ tracker' = NoTracker
    /\ voice' = VoiceLoaded(FALSE)
    /\ ev' = [op |-> "load", res |-> "second"]
    /\ UNCHANGED <<now, exported, otherTab>>

\* what a tab holds in memory: its page and the objects of its managers
TabState(p, cm, cs, orgs, t, f, v) ==
    [page |-> p, hasCM |-> cm, complaints |-> cs, organizations |-> orgs,
     tracker |-> t, formManager |-> f, voice |-> v]

\* the handlers of the second tab run next: the tabs share localStorage and
\* nothing else, each runs its handlers one at a time
switchTab ==
    /\ otherTab # NoTab
    /\ otherTab' = TabState(page, hasCM, complaints, organizations, tracker,
                            formManager, voice)
    /\ page' = otherTab.page
    /\ hasCM' = otherTab.hasCM
    /\ complaints' = otherTab.complaints
    /\ organizations' = otherTab.organizations
    /\ tracker' = otherTab.tracker
    /\ formManager' = otherTab.formManager
    /\ voice' = otherTab.voice
    /\ ev' = [op |-> "switchTab", res |-> "ok"]
    /\ UNCHANGED <<now, lsComplaints, lsOrganizations, lsDraft, exported,
                   failures>>

\* the clock advances
Tick ==
    /\ now < MaxTime
    /\ now' = now + 1
    /\ UNCHANGED <<page, voice, otherTab, hasCM, complaints, organizations, lsComplaints,
                   lsOrganizations, exported, tracker, formManager, lsDraft,
                   failures, ev>>

\* the organization edits followed next to the complaint lifecycle: the
\* response time of the first default organization is shortened
LifecycleForms(orgs) ==
    {form \in OrganizationForms(orgs) :
        /\ form.orgId = "techmart"
        /\ form.name = "TechMart Electronics"
        /\ form.responseTime = 1
        /\ form.escalationTime = 2}

\* the ids handed to the update handlers: held in memory, held in storage
\* only, held nowhere
UpdateIds ==
    Ids(complaints) \cup Ids(StoredArray(lsComplaints)) \cup {GhostComplaint}

\* how many complaints the tracking page is opened on, and how many status
\* changes are followed on it
MaxShown == 3

MaxClicks == 2

\* a complaint as the tracking page finds it in storage: filed with
\* TechMart 30 days ago, its deadline now; filed with TechMart on a machine
\* whose clock is a tick ahead; filed 31 days before that with an
\* organization that is gone, without a deadline.  Its status is whatever
\* an imported document gave it
StoredComplaint(kind, status, title, description) ==
    LET base == [title |-> title, description |-> description,
                 status |-> status, updates |-> <<>>]
    IN  CASE kind = "due" ->
               ObjectAssign(base,
                   [organizationId |-> "techmart",
                    createdDate |-> ToISOString(0 - 30 * DayTicks),
                    deadline |-> ToISOString(SetDate(0 - 30 * DayTicks, 30))])
          [] kind = "running" ->
               ObjectAssign(base,
                   [organizationId |-> "techmart",
                    createdDate |-> ToISOString(1),
                    deadline |-> ToISOString(SetDate(1, 30))])
          [] OTHER ->
               ObjectAssign(base,
                   [organizationId |-> GhostOrg,
                    createdDate |-> ToISOString(1 - 31 * DayTicks)])

StoredComplaints ==
    {StoredComplaint("due", "resolved", "Broken kettle", "It leaks"),
     StoredComplaint("due", "submitted", "Late parcel",
                     "The KETTLE never came"),
     StoredComplaint("running", "escalation", "Late parcel", "It leaks"),
     StoredComplaint("running", "submitted", "Late parcel", "It leaks"),
     StoredComplaint("gone", "withdrawn", "Late parcel", "It leaks")}

\* the stored collections of at most n complaints, ids in order of creation
Stores(n) ==
    UNION {{[i \in 1..m |->
                ObjectAssign([id |-> ComplaintIdPool[i]], pick[i])] :
              pick \in [1..m -> StoredComplaints]} : m \in 1..n}

\* the tracking page opened on a stored collection, with the manager on the
\* page or without it
InitTracker(stores, managers) ==
    /\ now = 0
    /\ page = "track"
    /\ hasCM \in managers
    /\ complaints \in stores
    /\ organizations = DefaultOrganizations
    /\ lsComplaints = JSONStringify(complaints)
    /\ lsOrganizations = JSONStringify(DefaultOrganizations)
    /\ exported = NoDoc
    /\ tracker = renderComplaints(complaints, organizations, NoFilters,
                                  0, 0, 1, NoModal)
    /\ formManager = NoForm
    /\ lsDraft = NoItem
    /\ voice = VoiceLoaded(FALSE)
    /\ otherTab = NoTab
    /\ failures = 0
    /\ ev = [op |-> "load", res |-> "ok"]

\* the log of the tracking page has room for another status change
ClickRoom == LogEntries(complaints) < MaxClicks

\* the log of an update handler has room for the entry the handler pushes
LogRoom(id) ==
    ComplaintIndex(complaints, id) # 0 => LogEntries(complaints) < MaxLog

\* a create handler called while the form is left as it is
FormIdle == UNCHANGED <<formManager, lsDraft>>

\* a navigation none of whose writes throws
QuietPageLoad(p, cm) == PageLoad(p, cm) /\ failures' = failures

\* the pages the complaints are worked on
ComplaintPages == {"create", "track"}

\* complaints created, updated and deleted, storage writes succeeding or
\* throwing
NextComplaints ==
    \/ \E p \in ComplaintPages, cm \in BOOLEAN : PageLoad(p, cm)
    \/ \E data \in ComplaintData(organizations), d \in ClockSteps,
          ok \in BOOLEAN : createComplaint(data, d, ok) /\ FormIdle
    \/ \E data \in ComplaintData(StoredArray(lsOrganizations)),
          d \in ClockSteps, ok \in BOOLEAN :
            createComplaintFallback(data, d, ok) /\ FormIdle
    \/ \E id \in UpdateIds, u \in Updates, ok \in BOOLEAN :
            LogRoom(id) /\ updateComplaint(id, u, ok)
    \/ \E id \in Ids(complaints) \cup {GhostComplaint}, ok \in BOOLEAN :
            deleteComplaint(id, ok)
    \/ \E id \in UpdateIds, s \in UpdateStatuses, ok \in BOOLEAN :
            /\ ~hasCM
            /\ LogRoom(id)
            /\ updateComplaintStatus(id, s, ok, tracker.modal)

\* the life of a complaint while the clock advances and its organization is
\* edited or deleted under it.  The cards of the tracking page going stale
\* under the clock are followed by NextTracker, the clock here advances on
\* the other pages
NextLifecycle ==
    \/ page # "track" /\ Tick
    \/ \E p \in ComplaintPages \cup {"admin"}, cm \in BOOLEAN :
          QuietPageLoad(p, cm)
    \/ \E data \in ComplaintData(organizations), ok \in BOOLEAN :
          createComplaint(data, 0, ok) /\ FormIdle
    \/ \E data \in ComplaintData(StoredArray(lsOrganizations)),
          ok \in BOOLEAN : createComplaintFallback(data, 0, ok) /\ FormIdle
    \/ \E id \in Ids(complaints), u \in Updates, ok \in BOOLEAN :
            LogRoom(id) /\ updateComplaint(id, u, ok)
    \/ \E id \in Ids(complaints), s \in UpdateStatuses, ok \in BOOLEAN :
            /\ ~hasCM
            /\ LogRoom(id)
            /\ updateComplaintStatus(id, s, ok, tracker.modal)
    \/ \E form \in LifecycleForms(organizations), ok \in BOOLEAN :
            saveOrganization(form, ok)
    \/ \E ok \in BOOLEAN : deleteOrganization("techmart", ok)

\* the tracking page displayed while the clock advances: filters set and
\* cleared, the page loaded again, every render reading one clock value
NextFilters ==
    \/ Tick
    \/ PageLoad("track", hasCM)
    \/ \E filters \in FilterInputs(tracker.currentFilters) :
          applyFilters(filters, 0, 1)

\* the same page, the clock moving while a render sorts
NextDisplay ==
    \/ Tick
    \/ PageLoad("track", hasCM)
    \/ \E filters \in FilterInputs(tracker.currentFilters), d \in ClockSteps,
          k \in 1..(MaxShown + 1) : applyFilters(filters, d, k)

\* the tracking page worked on: details opened, complaints escalated and
\* marked resolved from the cards and from the modal, writes succeeding or
\* throwing
NextTracker ==
    \/ Tick
    \/ PageLoad("track", hasCM)
    \/ \E id \in Ids(complaints) : showComplaintDetails(id)
    \/ hideModal
    \/ \E id \in Ids(complaints), ok \in BOOLEAN :
          ClickRoom /\ escalateComplaintDirect(id, ok)
    \/ \E id \in Ids(complaints), ok \in BOOLEAN :
          ClickRoom /\ markComplaintResolvedDirect(id, ok)
    \/ \E ok \in BOOLEAN : ClickRoom /\ escalateComplaint(ok)
    \/ \E ok \in BOOLEAN : ClickRoom /\ markComplaintResolved(ok)

\* a step back, or a step forward asked for on a valid step
ValidMove(stepNumber) ==
    stepNumber > formManager.currentStep => validateCurrentStep(formManager)

\* the wizard of the form page: fields typed and cleared, steps taken both
\* ways, the draft saved, offered and restored, the form submitted from any
\* step, the second of its timer passing.  The draft writes that throw are
\* those of the submit and of leaving the page; the steps forward refused
\* are followed by NextWizard
NextForm ==
    \/ PageLoad("create", hasCM)
    \/ \E field \in FieldIds :
          \E value \in FieldValues(field) : input(field, value)
    \/ \E stepNumber \in {formManager.currentStep - 1,
                          formManager.currentStep + 1} :
          ValidMove(stepNumber) /\ goToStep(stepNumber, TRUE)
    \/ \E ok \in BOOLEAN : handleFormSubmission(ok)
    \/ formManager.pending.timer = "submit" /\ SecondPasses
    \/ \E ok \in BOOLEAN : submitTimer(0, ok)

\* the form filled in and submitted, the redirect to the tracking page
\* that follows, and the form visited again
NextSubmit ==
    \/ NextForm
    \/ redirectTimer(hasCM)
    \/ page = "track" /\ PageLoad("create", hasCM)

\* the form page left open: fields typed, steps taken, the seconds of the
\* auto-save interval passing
NextAutoSave ==
    \/ \E field \in FieldIds :
          \E value \in FieldValues(field) : input(field, value)
    \/ \E stepNumber \in {formManager.currentStep - 1,
                          formManager.currentStep + 1} :
          ValidMove(stepNumber) /\ goToStep(stepNumber, TRUE)
    \/ SecondPasses
    \/ \E ok \in BOOLEAN : autoSave(ok)

\* the steps of the wizard: fields typed and cleared, steps asked for by
\* the Next and Back buttons and by Alt+Arrow, granted or refused, the
\* draft write succeeding or throwing, the page loaded again
NextWizard ==
    \/ PageLoad("create", hasCM)
    \/ \E field \in FieldIds :
          \E value \in FieldValues(field) : input(field, value)
    \/ \E stepNumber \in {formManager.currentStep - 1,
                          formManager.currentStep + 1}, ok \in BOOLEAN :
          goToStep(stepNumber, ok)

\* the complaints the tabs create: about the first organization
TabComplaintData(orgs) ==
    {data \in ComplaintData(orgs) : data.organizationId # GhostOrg}

\* two tabs on one localStorage: each creates, resolves and deletes
\* complaints from the collection it loaded, every write succeeding
NextTabs ==
    \/ \E cm \in BOOLEAN : QuietPageLoad("create", cm)
    \/ QuietPageLoad("track", TRUE)
    \/ switchTab
    \/ \E data \in TabComplaintData(organizations) :
          createComplaint(data, 0, TRUE) /\ FormIdle
    \/ \E data \in TabComplaintData(StoredArray(lsOrganizations)) :
          createComplaintFallback(data, 0, TRUE) /\ FormIdle
    \/ \E id \in Ids(complaints) :
          LogRoom(id) /\ updateComplaint(id, [status |-> "resolved"], TRUE)
    \/ \E id \in Ids(complaints) : deleteComplaint(id, TRUE)

\* voice navigation: the button clicked, the recognizer reporting results,
\* errors and ends, the timers firing in any order, the page loaded again
NextVoice ==
    \/ QuietPageLoad("index", TRUE)
    \/ \E ok \in BOOLEAN : clickVoiceButton(ok)
    \/ \E ok \in BOOLEAN : restoreTimer(ok)
    \/ restartTimer
    \/ \E processed \in BOOLEAN : onresult(processed)
    \/ \E error \in RecognitionErrors, ok \in BOOLEAN : onerror(error, ok)
    \/ onend

\* records entering and leaving the store: complaints created and deleted,
\* organizations created, documents imported
NextIds ==
    \/ \E p \in ComplaintPages \cup {"admin"}, cm \in BOOLEAN : PageLoad(p, cm)
    \/ \E data \in ComplaintData(organizations), ok \in BOOLEAN :
            createComplaint(data, 0, ok) /\ FormIdle
    \/ \E data \in ComplaintData(StoredArray(lsOrganizations)),
          ok \in BOOLEAN : createComplaintFallback(data, 0, ok) /\ FormIdle
    \/ \E id \in Ids(complaints), ok \in BOOLEAN : deleteComplaint(id, ok)
    \/ \E form \in OrganizationForms(organizations) :
            /\ form.orgId = ""
            /\ saveOrganization(form, TRUE)
    \/ \E data \in ImportDocuments : importData(data, TRUE, TRUE)

\* the administration of organizations and data, every storage write
\* succeeding
NextAdmin ==
    \/ \E p \in {"index", "admin"}, cm \in BOOLEAN : PageLoad(p, cm)
    \/ \E form \in OrganizationForms(organizations) :
            /\ form.orgId \in Rows(organizations) \cup {""}
            /\ saveOrganization(form, TRUE)
    \/ \E id \in Rows(organizations) : deleteOrganization(id, TRUE)
    \/ \E data \in ImportDocuments : importData(data, TRUE, TRUE)
    \/ clearAllData(TRUE, TRUE)
    \/ \E data \in ManagerDocuments : managerImportData(data, TRUE, TRUE)

\* a store is built, exported, and the document imported into a second,
\* empty store
NextRoundTrip ==
    \/ /\ exported = NoDoc
       /\ \/ \E cm \in BOOLEAN : PageLoad("admin", cm)
          \/ \E form \in OrganizationForms(organizations) :
                /\ form.orgId = ""
                /\ saveOrganization(form, TRUE)
          \/ \E id \in Rows(organizations) : deleteOrganization(id, TRUE)
          \/ \E data \in ImportDocuments : importData(data, TRUE, TRUE)
    \/ exportData
    \/ \E cm \in BOOLEAN : openSecondStore("admin", cm, TRUE)
    \/ /\ exported # NoDoc
       /\ importData(exported, TRUE, TRUE)

Next ==
    \/ NextComplaints \/ NextLifecycle \/ NextIds \/ NextAdmin
    \/ NextRoundTrip \/ NextFilters \/ NextDisplay \/ NextTracker
    \/ NextForm \/ NextAutoSave \/ NextWizard \/ NextVoice \/ NextTabs
    \/ NextSubmit

Spec == Init /\ [][Next]_vars

SpecComplaints == Init /\ [][NextComplaints]_vars

SpecLifecycle == Init /\ [][NextLifecycle]_vars

SpecDisplay ==
    InitTracker(Stores(MaxShown), {FALSE}) /\ [][NextDisplay]_vars

SpecFilters ==
    InitTracker(Stores(MaxShown), {FALSE}) /\ [][NextFilters]_vars

SpecTracker ==
    InitTracker(Stores(MaxComplaints), BOOLEAN) /\ [][NextTracker]_vars

\* the form page just opened on a store without complaints and without a
\* draft
InitForm(managers) ==
    /\ now = 0
    /\ page = "create"
    /\ hasCM \in managers
    /\ complaints = <<>>
    /\ organizations = DefaultOrganizations
    /\ lsComplaints = NoItem
    /\ lsOrganizations = JSONStringify(DefaultOrganizations)
    /\ exported = NoDoc
    /\ tracker = NoTracker
    /\ formManager = NoForm
    /\ lsDraft = NoItem
    /\ voice = VoiceLoaded(FALSE)
    /\ otherTab = NoTab
    /\ failures = 0
    /\ ev = [op |-> "load", res |-> "ok"]

SpecForm == InitForm(BOOLEAN) /\ [][NextForm]_vars

SpecSubmit == InitForm(BOOLEAN) /\ [][NextSubmit]_vars

SpecAutoSave == InitForm({TRUE}) /\ [][NextAutoSave]_vars

SpecWizard == InitForm({TRUE}) /\ [][NextWizard]_vars

SpecVoice == Init /\ [][NextVoice]_vars

\* both tabs have loaded the start page from the same localStorage
InitTabs ==
    /\ now = 0
    /\ page = "index"
    /\ hasCM = TRUE
    /\ complaints = <<>>
    /\ organizations = DefaultOrganizations
    /\ lsComplaints = NoItem
    /\ lsOrganizations = JSONStringify(DefaultOrganizations)
    /\ exported = NoDoc
    /\ tracker = NoTracker
    /\ formManager = NoForm
    /\ lsDraft = NoItem
    /\ voice = VoiceLoaded(FALSE)
    /\ otherTab = TabState("index", TRUE, <<>>, DefaultOrganizations,
                           NoTracker, NoForm, VoiceLoaded(FALSE))
    /\ failures = 0
    /\ ev = [op |-> "load", res |-> "ok"]

SpecTabs == InitTabs /\ [][NextTabs]_vars

SpecIds == Init /\ [][NextIds]_vars

SpecAdmin == Init /\ [][NextAdmin]_vars

SpecRoundTrip == Init /\ [][NextRoundTrip]_vars

-----------------------------------------------------------------------------
(* Properties *)

\* s is an initial segment of t
IsPrefix(s, t) == Len(s) <= Len(t) /\ SubSeq(t, 1, Len(s)) = s

\* the fields of a record that are not ids
Content(r) == [f \in (DOMAIN r) \ {"id", "organizationId"} |-> r[f]]

\* the complaints held in memory or in storage
AllComplaints == Range(complaints) \cup Range(StoredArray(lsComplaints))

\* the organization arrays held in memory and in storage
AllOrganizationArrays == {organizations, StoredArray(lsOrganizations)}

\* C1: after any sequence of organization create, update, delete, import
\* and clear-all operations no two organizations of the store have names
\* that are equal ignoring case, and saving an organization under a name
\* another organization holds is rejected on the name field with the
\* collection unchanged.
C1_NamesUniqueIgnoringCase ==
    /\ [](\A orgs \in AllOrganizationArrays : \A i, j \in 1..Len(orgs) :
            i # j => ToLowerCase(orgs[i].name) # ToLowerCase(orgs[j].name))
    /\ [][\A form \in OrganizationForms(organizations) :
            ( /\ form.escalationTime > form.responseTime
              /\ \E i \in 1..Len(organizations) :
                    /\ ToLowerCase(organizations[i].name)
                          = ToLowerCase(Trim(form.name))
                    /\ organizations[i].id # form.orgId
              /\ saveOrganization(form, TRUE) )
            => /\ ev'.res = "org-name"
               /\ UNCHANGED <<organizations, lsOrganizations>>]_vars

\* C2: a complaint created by createComplaint or createComplaintFallback
\* whose organizationId resolves to a stored organization has a deadline
\* equal to its createdDate plus the response time of the organization in
\* days; when the organizationId does not resolve it has no deadline.
C2_DeadlineIsCreatedPlusResponseTime ==
    (ev.op \in {"createComplaint", "createComplaintFallback"}
        /\ ev.res = "returned")
    => LET viaManager == ev.op = "createComplaint"
           cs == IF viaManager THEN complaints ELSE StoredArray(lsComplaints)
           orgs == IF viaManager THEN organizations
                   ELSE StoredArray(lsOrganizations)
           c == cs[Len(cs)]
           k == OrgIndex(orgs, c.organizationId)
       IN  IF k # 0
           THEN /\ "deadline" \in DOMAIN c
                /\ ParseDate(c.deadline)
                     = ParseDate(c.createdDate)
                          + orgs[k].responseTimedays * DayTicks
           ELSE "deadline" \notin DOMAIN c

\* C3: whenever createComplaint has returned a complaint, updateComplaint or
\* deleteComplaint has returned true, or saveOrganization has announced
\* success, the persisted collection equals the collection in memory,
\* whatever the outcome of the storage write.
C3_SuccessMeansPersisted ==
    /\ (ev.op = "createComplaint" /\ ev.res = "returned")
          => lsComplaints = JSONStringify(complaints)
    /\ (ev.op \in {"updateComplaint", "deleteComplaint"} /\ ev.res = "true")
          => lsComplaints = JSONStringify(complaints)
    /\ (ev.op = "saveOrganization" /\ ev.res \in {"created", "updated"})
          => lsOrganizations = JSONStringify(organizations)

\* C4: a complaint keeps its createdDate and its deadline (present or
\* absent, and the value) over every step: the status updates of
\* updateComplaint and of the tracker, organization edits, organization
\* deletions, page loads, the clock advancing; in memory and in storage.
C4_DatesNeverChange ==
    [][\A c \in AllComplaints : \A c2 \in AllComplaints' :
          c.id = c2.id =>
            /\ c2.createdDate = c.createdDate
            /\ ("deadline" \in DOMAIN c2) <=> ("deadline" \in DOMAIN c)
            /\ "deadline" \in DOMAIN c => c2.deadline = c.deadline]_vars

\* a complaint with a deadline was escalated after the response time of its
\* organization was edited
C4_Witness ==
    \E c \in Range(complaints) :
        /\ "deadline" \in DOMAIN c
        /\ c.status = "escalation"
        /\ Len(c.updates) = 1
        /\ LET k == OrgIndex(organizations, c.organizationId)
           IN  k # 0 /\ organizations[k].responseTimedays = 1

\* C5: the document exported from a store, imported into a second store
\* opened on empty local storage, gives as many complaints and as many
\* organizations as the original, with the same content fields.
C5_RoundTripPreservesStore ==
    [][( /\ ev.op = "load" /\ ev.res = "second"
         /\ exported # NoDoc
         /\ importData(exported, TRUE, TRUE) )
       => /\ Len(complaints') = Len(exported.complaints.array)
          /\ Len(organizations') = Len(exported.organizations.array)
          /\ \A i \in 1..Len(complaints') :
                Content(complaints'[i])
                    = Content(exported.complaints.array[i])
          /\ \A i \in 1..Len(organizations') :
                Content(organizations'[i])
                    = Content(exported.organizations.array[i])]_vars

\* C6: every organization of the store, in memory and in storage, has an
\* escalation time strictly greater than its response time, after any
\* sequence of create, update, import and clear-all operations.
C6_EscalationAfterResponse ==
    \A orgs \in AllOrganizationArrays : \A i \in 1..Len(orgs) :
        orgs[i].escalationTimedays > orgs[i].responseTimedays

C8_UnknownIdChangesNothing ==
    [][\A id \in UpdateIds, u \in Updates :
          /\ ((\A i \in 1..Len(complaints) : complaints[i].id # id)
                /\ updateComplaint(id, u, TRUE))
             => /\ ev'.res = "false"
                /\ complaints' = complaints
                /\ lsComplaints' = lsComplaints
          /\ ((\A i \in 1..Len(complaints) : complaints[i].id # id)
                /\ updateComplaintStatus(id, u.status, TRUE, tracker.modal))
             => /\ complaints' = complaints
                /\ lsComplaints' = lsComplaints]_vars

\* updateComplaint returned false on a collection that holds a complaint
C8_Witness ==
    /\ ev.op = "updateComplaint"
    /\ ev.res = "false"
    /\ Len(complaints) > 0

\* C9: each successful updateComplaint appends exactly one entry
\* {date, type 'status_change', details = the fields passed} to the log of
\* its complaint, and over every step the log of a complaint, in memory and
\* in storage, keeps its earlier entries and does not get shorter.
C9_LogAppendOnly ==
    [][/\ \A id \in Ids(complaints), u \in Updates, ok \in BOOLEAN :
            updateComplaint(id, u, ok) =>
              /\ ev'.res = "true"
              /\ Len(complaints') = Len(complaints)
              /\ \A i \in 1..Len(complaints) :
                    complaints'[i].updates =
                      IF complaints[i].id = id
                      THEN Append(complaints[i].updates,
                                  [date |-> ToISOString(now),
                                   type |-> "status_change", details |-> u])
                      ELSE complaints[i].updates
       /\ \A c \in Range(complaints) : \A c2 \in Range(complaints') :
            c.id = c2.id => IsPrefix(c.updates, c2.updates)
       /\ \A c \in Range(StoredArray(lsComplaints)) :
            \A c2 \in Range(StoredArray(lsComplaints')) :
              c.id = c2.id => IsPrefix(c.updates, c2.updates)]_vars

\* C10: importing a document whose complaints or organizations part is
\* missing or is not an array is rejected as a whole: the complaints and
\* the organizations, in memory and in storage, stay as they were.
C10_MalformedImportRejected ==
    [][\A data \in ImportDocuments :
          ((data.complaints \in {Missing, NotArray}
              \/ data.organizations \in {Missing, NotArray})
            /\ importData(data, TRUE, TRUE))
          => /\ ev'.res = "invalid"
             /\ UNCHANGED <<complaints, organizations, lsComplaints,
                            lsOrganizations>>]_vars

\* a document of the wrong shape was refused by a store that holds data
C10_Witness ==
    /\ ev.op = "importData"
    /\ ev.res = "invalid"
    /\ Len(organizations) > 0
    /\ Len(complaints) > 0

\* C11: deleting an organization removes exactly that organization, in
\* memory and in what is written, and leaves every complaint unchanged in
\* memory and in storage; a complaint of the deleted organization keeps its
\* organizationId, which now resolves to 'Unknown Organization'.
C11_DeleteOrganizationFrame ==
    [][\A orgId \in Ids(organizations), ok \in BOOLEAN :
          deleteOrganization(orgId, ok) =>
            /\ \A o \in Range(organizations) :
                  o.id # orgId <=> o \in Range(organizations')
            /\ Len(organizations') = Len(organizations) - 1
            /\ \A i, j \in 1..Len(organizations') :
                  i < j => OrgIndex(organizations, organizations'[i].id)
                             < OrgIndex(organizations, organizations'[j].id)
            /\ lsOrganizations' =
                  IF ok THEN JSONStringify(organizations')
                  ELSE lsOrganizations
            /\ complaints' = complaints
            /\ lsComplaints' = lsComplaints
            /\ \A c \in Range(complaints') :
                  c.organizationId = orgId =>
                    getOrganizationName(organizations', c.organizationId)
                        = "Unknown Organization"]_vars

\* an organization was deleted under a complaint that names it
C11_Witness ==
    /\ ev.op = "deleteOrganization"
    /\ \E c \in Range(complaints) :
          /\ c.organizationId = "techmart"
          /\ getOrganizationName(organizations, c.organizationId)
                = "Unknown Organization"

\* the records of an array carry pairwise distinct ids
DistinctIds(s) == \A i, j \in 1..Len(s) : i # j => s[i].id # s[j].id

\* the organizations held in memory or in storage
AllOrganizations == Range(organizations) \cup Range(StoredArray(lsOrganizations))

RenderStep ==
    \/ \E filters \in FilterInputs(tracker.currentFilters),
          d \in ClockSteps, k \in 1..(MaxShown + 1) :
            applyFilters(filters, d, k)
    \/ \E cm \in BOOLEAN : PageLoad("track", cm)
    \/ \E id \in Ids(complaints), s \in UpdateStatuses,
          m \in {tracker.modal, NoModal} :
            /\ updateComplaintStatus(id, s, TRUE, m)
            /\ ev'.res = "done"

\* the complaint a card shows
CardComplaint(cs, card) == cs[ComplaintIndex(cs, card.id)]

KeyRank(status) ==
    CASE status = "escalation" -> 6
      [] status = "response-due" -> 5
      [] status = "in-progress" -> 4
      [] status = "acknowledged" -> 3
      [] status = "submitted" -> 2
      [] status = "resolved" -> 1
      [] OTHER -> 0

\* complaint a may be shown before complaint b at time t: overdue first,
\* then the higher rank, then the newer createdDate
MayPrecede(a, b, t) ==
    LET aOverdue == "deadline" \in DOMAIN a /\ t > ParseDate(a.deadline)
        bOverdue == "deadline" \in DOMAIN b /\ t > ParseDate(b.deadline)
    IN  IF aOverdue # bOverdue THEN aOverdue
        ELSE IF KeyRank(a.status) # KeyRank(b.status)
        THEN KeyRank(a.status) > KeyRank(b.status)
        ELSE ParseDate(a.createdDate) >= ParseDate(b.createdDate)

\* the ids shown, in their order, are sorted by the composite key at time t
DisplayOrdered(ids, cs, t) ==
    \A i, j \in DOMAIN ids :
        i < j => MayPrecede(cs[ComplaintIndex(cs, ids[i])],
                            cs[ComplaintIndex(cs, ids[j])], t)

\* C14: the order renderComplaints leaves on the page is sorted by the
\* composite key (overdue first, then status rank descending, then
\* createdDate newest first), overdue taken at an instant of the render.
C14_DisplaySorted ==
    [][RenderStep =>
         \E t \in now..now' :
            DisplayOrdered(tracker'.filteredComplaints, complaints', t)]_vars

\* the complaints the page shows, in the order it shows them
Displayed(view, cs) ==
    [i \in DOMAIN view.filteredComplaints |->
        cs[ComplaintIndex(cs, view.filteredComplaints[i])]]

\* C15: at a fixed clock value the display sort is idempotent: sorting the
\* sequence a render has just left in display order again, at the time of
\* that render, yields the same sequence.
C15_SortIdempotent ==
    [][(RenderStep /\ now' = now) =>
         sortedComplaints(Displayed(tracker', complaints'), now', now', 1)
            = Displayed(tracker', complaints')]_vars

\* the page shows three complaints, two of them equal in every key of the
\* order, one of them overdue
C15_Witness ==
    /\ ev.op = "applyFilters"
    /\ Len(tracker.filteredComplaints) = 3
    /\ \E i, j \in DOMAIN tracker.cards :
          /\ i < j
          /\ Compare(Displayed(tracker, complaints)[i],
                     Displayed(tracker, complaints)[j], now) = 0
    /\ \E i \in DOMAIN tracker.cards : tracker.cards[i].overdue

\* the step is applyFilters, called by a filter control or by clearFilters
ApplyStep ==
    \E filters \in FilterInputs(tracker.currentFilters) :
        applyFilters(filters, 0, 1)

\* complaint c satisfies every active filter: the search term is, case
\* ignored, part of its title, its description or the name of its
\* organization; its status and its organization are the ones selected
Satisfies(c, orgs, filters) ==
    /\ \/ filters.search = ""
       \/ \E text \in {c.title, c.description,
                       getOrganizationName(orgs, c.organizationId)} :
             Includes(ToLowerCase(text), ToLowerCase(filters.search))
    /\ filters.status = "" \/ c.status = filters.status
    /\ filters.organization = "" \/ c.organizationId = filters.organization

\* the ids of the complaints of cs that satisfy the filters, in the order
\* of cs
RECURSIVE SatisfyingIds(_, _, _)
SatisfyingIds(cs, orgs, filters) ==
    IF cs = <<>> THEN <<>>
    ELSE (IF Satisfies(Head(cs), orgs, filters) THEN <<Head(cs).id>>
          ELSE <<>>) \o SatisfyingIds(Tail(cs), orgs, filters)

\* C16 as stated: applyFilters leaves exactly the complaints that satisfy
\* all active filters, in their original relative order in the collection.
C16_FilteredInCollectionOrder ==
    [][ApplyStep =>
         tracker'.filteredComplaints =
            SatisfyingIds(complaints', organizations',
                          tracker'.currentFilters)]_vars

\* C16 amended: applyFilters leaves in filteredComplaints exactly the
\* complaints that satisfy all active filters, each of them once, an empty
\* filter satisfied by every complaint; their order is the one the display
\* sort of renderComplaints leaves, which is the order of the collection
\* for the complaints that sort holds equal.
C16_FilteredExactly ==
    [][ApplyStep =>
         LET shown == tracker'.filteredComplaints
             kept == SatisfyingIds(complaints', organizations',
                                   tracker'.currentFilters)
         IN  /\ Range(shown) = Range(kept)
             /\ Len(shown) = Len(kept)
             /\ \A i, j \in DOMAIN shown :
                  (/\ i < j
                   /\ Compare(Displayed(tracker', complaints')[i],
                              Displayed(tracker', complaints')[j], now') = 0)
                  => ComplaintIndex(complaints', shown[i])
                        < ComplaintIndex(complaints', shown[j])]_vars

\* a search term and a status filter are active, some complaints pass and
\* some do not, and those shown are not in the order of the collection
C16_Witness ==
    /\ ev.op = "applyFilters"
    /\ tracker.currentFilters.search # ""
    /\ tracker.currentFilters.status # ""
    /\ Len(tracker.filteredComplaints) \in 2..(Len(complaints) - 1)
    /\ tracker.filteredComplaints #
          SatisfyingIds(complaints, organizations, tracker.currentFilters)

\* C17: the days elapsed a card shows are never negative and are the
\* ceiling of the absolute difference between the clock and createdDate in
\* whole days: the smallest count of days that covers the difference; when
\* the clock is not before createdDate they are 0 only at createdDate
\* itself, and 31 days after createdDate they are 31.
C17_DaysElapsedCeiling ==
    [][RenderStep =>
         \A i \in DOMAIN tracker'.cards :
            LET c == CardComplaint(complaints', tracker'.cards[i])
                days == tracker'.cards[i].daysElapsed
                diff == now' - ParseDate(c.createdDate)
                distance == IF diff < 0 THEN 0 - diff ELSE diff
            IN  /\ days >= 0
                /\ days * DayTicks >= distance
                /\ (days - 1) * DayTicks < distance
                /\ diff >= 0 => (days = 0 <=> diff = 0)
                /\ diff = 31 * DayTicks => days = 31]_vars

\* the page shows a complaint filed exactly 31 days ago with 31 days, one
\* filed at this instant with 0 days, and one filed part of a day ago
C17_Witness ==
    /\ \E i \in DOMAIN tracker.cards :
          /\ tracker.cards[i].daysElapsed = 31
          /\ now - ParseDate(CardComplaint(complaints,
                                 tracker.cards[i]).createdDate)
                = 31 * DayTicks
    /\ \E i \in DOMAIN tracker.cards :
          /\ tracker.cards[i].daysElapsed = 0
          /\ ParseDate(CardComplaint(complaints,
                           tracker.cards[i]).createdDate) = now
    /\ \E i \in DOMAIN tracker.cards :
          /\ tracker.cards[i].daysElapsed = 31
          /\ now - ParseDate(CardComplaint(complaints,
                                 tracker.cards[i]).createdDate)
                \notin {30 * DayTicks, 31 * DayTicks}

\* the step is a click on a button the tracking page shows: escalate or
\* mark resolved, on a card or in the modal
ClickStep ==
    \/ \E id \in Ids(complaints), ok \in BOOLEAN :
          \/ escalateComplaintDirect(id, ok)
          \/ markComplaintResolvedDirect(id, ok)
    \/ \E ok \in BOOLEAN : escalateComplaint(ok) \/ markComplaintResolved(ok)

\* C19: through the tracker's actions resolved is terminal.  A card just
\* rendered and a modal just opened offer escalate only for an overdue
\* complaint that is not resolved and mark-resolved only for one that is
\* not resolved, and no click on a button the page shows changes the status
\* of a complaint that is resolved.
C19_ResolvedIsTerminal ==
    [][/\ RenderStep =>
            \A i \in DOMAIN tracker'.cards :
               LET c == CardComplaint(complaints', tracker'.cards[i])
               IN  /\ tracker'.cards[i].escalate <=>
                        /\ "deadline" \in DOMAIN c
                        /\ now' > ParseDate(c.deadline)
                        /\ c.status # "resolved"
                   /\ tracker'.cards[i].resolve <=> c.status # "resolved"
       /\ (\E id \in Ids(complaints) : showComplaintDetails(id)) =>
            LET c == complaints'[ComplaintIndex(complaints',
                                     tracker'.modal.complaintId)]
            IN  /\ tracker'.modal.escalate <=>
                     /\ "deadline" \in DOMAIN c
                     /\ now' > ParseDate(c.deadline)
                     /\ c.status # "resolved"
                /\ tracker'.modal.resolve <=> c.status # "resolved"
       /\ ClickStep =>
            \A i \in DOMAIN complaints :
               complaints[i].status = "resolved" =>
                  /\ i \in DOMAIN complaints'
                  /\ complaints'[i].status = "resolved"]_vars

\* a text field holds a value, the box is ticked
NonEmpty(v) == v # [value |-> ""] /\ v # [checked |-> FALSE]

\* every required field has a non-empty value in the collected form data
AllRequiredPresent(data) ==
    \A i \in DOMAIN RequiredFields : NonEmpty(data[RequiredFields[i]])

\* the step adds a complaint to the collection in memory or in storage
ComplaintAdded ==
    \/ Len(complaints') > Len(complaints)
    \/ Len(StoredArray(lsComplaints')) > Len(StoredArray(lsComplaints))

\* C18: on the form page a complaint is created only by the timer of a
\* submission, and a submission starts that timer only when every required
\* field has a non-empty value in the collected form data, from whatever
\* step and after whatever navigation, edits and draft restores it comes; a
\* submission with one of them missing creates nothing and starts no timer,
\* and the complaint created carries the values collected at the submit.
C18_RequiredFieldsForCreation ==
    [][/\ (\E ok \in BOOLEAN : handleFormSubmission(ok)) =>
            /\ ~ComplaintAdded
            /\ formManager'.pending.timer = "submit"
                 => /\ AllRequiredPresent(formManager'.formData)
                    /\ formManager'.pending.complaintData.organizationId
                         = formManager'.formData["organization"].value
                    /\ formManager'.pending.complaintData.title
                         = formManager'.formData["complaint-title"].value
                    /\ formManager'.pending.complaintData.description
                         = formManager'.formData["complaint-description"].value
            /\ ~AllRequiredPresent(formManager'.formData)
                 => formManager'.pending.timer = "none"
       /\ formManager'.pending.timer = "submit"
            => \/ \E ok \in BOOLEAN : handleFormSubmission(ok)
               \/ /\ formManager.pending.timer = "submit"
                  /\ formManager'.pending.complaintData
                       = formManager.pending.complaintData
       /\ ComplaintAdded =>
            /\ formManager.pending.timer = "submit"
            /\ LET added == IF hasCM THEN complaints'
                            ELSE StoredArray(lsComplaints')
                   complaint == added[Len(added)]
                   data == formManager.pending.complaintData
               IN  /\ Len(added) = 1 + Len(IF hasCM THEN complaints
                                           ELSE StoredArray(lsComplaints))
                   /\ complaint.organizationId = data.organizationId
                   /\ complaint.title = data.title
                   /\ complaint.description = data.description
                   /\ complaint.organizationId # ""
                   /\ complaint.title # ""
                   /\ complaint.description # ""
                   /\ complaint.desiredOutcome # ""
                   /\ complaint.contactDetails.fullName # ""
                   /\ complaint.contactDetails.email # ""]_vars

\* a submit from an earlier step, the step shown valid and the box ticked,
\* found the title cleared after a step back and created nothing
C18_Witness ==
    /\ page = "create"
    /\ ev = [op |-> "handleFormSubmission", res |-> "missing"]
    /\ formManager.currentStep = 2
    /\ formManager.formData["confirm-accuracy"] = [checked |-> TRUE]
    /\ formManager.formData["complaint-title"] = [value |-> ""]
    /\ formManager.pending.timer = "none"
    /\ complaints = <<>>
    /\ lsComplaints = NoItem

\* C20: a second after the last key was pressed in the step shown, the user
\* not having left the step, the stored draft holds the values of the fields
\* of that step.
C20_DraftHoldsTypedValues ==
    page = "create" /\ formManager.sinceInput >= TestWaitSeconds
        => /\ lsDraft # NoItem
           /\ \A field \in StepFields(formManager.currentStep) :
                 JSONParse(lsDraft)[field] = formManager.fields[field]

\* a Next button or Alt+Right asks for the step after the one shown
ForwardRequest ==
    /\ formManager.currentStep < totalSteps
    /\ \E ok \in BOOLEAN : goToStep(formManager.currentStep + 1, ok)

\* C21: a request to move forward while a required field of the step shown
\* is empty leaves the step and the progress indicator as they were, marks
\* every such field invalid with an error message and saves nothing, in
\* formData and in the draft; with every required field of the step filled
\* the request moves to the next step and the progress indicator shows it.
C21_ForwardMoveValidates ==
    [][ForwardRequest =>
          LET empty == {id \in StepFields(formManager.currentStep) :
                           ~NonEmpty(formManager.fields[id])}
          IN  IF empty # {}
              THEN /\ formManager'.currentStep = formManager.currentStep
                   /\ formManager'.progress = formManager.progress
                   /\ empty \subseteq formManager'.invalid
                   /\ formManager'.formData = formManager.formData
                   /\ lsDraft' = lsDraft
              ELSE /\ formManager'.currentStep = formManager.currentStep + 1
                   /\ formManager'.progress = formManager.currentStep + 1]_vars

\* the step forward refused on the second step, the name filled and the
\* e-mail address not
C21_Witness ==
    /\ page = "create"
    /\ ev = [op |-> "goToStep", res |-> "invalid"]
    /\ formManager.currentStep = 2
    /\ formManager.progress = 2
    /\ formManager.invalid = {"email"}
    /\ formManager.fields["full-name"] # [value |-> ""]

-----------------------------------------------------------------------------
(* The label of the voice navigation button *)

\* the accessible label that goes with the state of voice navigation
LabelOf(active) ==
    IF active THEN "Stop voice navigation" ELSE "Start voice navigation"

\* C22: in every state the label of the voice navigation button is 'Start
\* voice navigation' while voice navigation is inactive, from the page load
\* on, and 'Stop voice navigation' while it is active, and each click on
\* the button (or Ctrl+Shift+V) turns one into the other
C22_LabelReflectsState ==
    /\ [](voice.label = LabelOf(voice.isVoiceNavigationActive))
    /\ [][(\E ok \in BOOLEAN : clickVoiceButton(ok)) =>
            /\ voice'.isVoiceNavigationActive = ~voice.isVoiceNavigationActive
            /\ voice'.label = LabelOf(voice'.isVoiceNavigationActive)]_vars

-----------------------------------------------------------------------------
(* Two tabs on one localStorage *)

\* a write of localStorage['complaints'] has just happened
ComplaintsWritten == lsComplaints' # lsComplaints

-----------------------------------------------------------------------------
(* The draft after a submission *)

\* C24: once a submission has succeeded and handleFormSubmission has
\* removed 'complaint-form-draft', no later event of the form page (a
\* timer, the beforeunload handler fired by the redirect, a key) writes
\* the draft back: from then on, and on the next visit, there is no draft
C24_NoDraftAfterSubmission ==
    [][formManager.pending = Redirecting => lsDraft' = NoItem]_vars

-----------------------------------------------------------------------------
(* The organization of an imported complaint *)

\* the complaints of document data, imported after the n complaints the
\* store held, name in the store the organization they named in the document
LinkPreserved(data, n) ==
    LET docOrgs == data.organizations.array
        docComplaints == data.complaints.array
    IN  \A i \in 1..Len(docComplaints) :
            OrgIndex(docOrgs, docComplaints[i].organizationId) # 0 =>
                getOrganizationName(organizations',
                                    complaints'[n + i].organizationId)
                  = getOrganizationName(docOrgs,
                                        docComplaints[i].organizationId)

\* C25: an import keeps the organization of every complaint: a complaint
\* of the document whose organizationId names an organization of the
\* document names, in the store after the import, an organization of the
\* same name
C25_ImportKeepsOrganization ==
    [][\A data \in ImportDocuments :
          (/\ ValidDocument(data)
           /\ importData(data, TRUE, TRUE)
           /\ ev'.res = "imported")
             => LinkPreserved(data, Len(complaints))]_vars

-----------------------------------------------------------------------------
(* One complaint for one submission *)

\* handleFormSubmission has just accepted a submission and started its timer
SubmissionAccepted ==
    ev' = [op |-> "handleFormSubmission", res |-> "submitting"]

-----------------------------------------------------------------------------
(* The fallback paths and the manager *)

\* what createComplaint stores for this input when its ComplaintManager
\* has been constructed on the localStorage of this state
createComplaintStores(complaintData, d, ok) ==
    SetItem(lsComplaints,
            Append(loadComplaints(lsComplaints),
                   NewComplaint(FreshId(ComplaintIdPool, UsedComplaintIds),
                                complaintData,
                                loadOrganizations(lsOrganizations),
                                now, now + d)),
            ok)

\* what a status update stores when the page that makes it, with the
\* manager or without, has loaded its complaints from the localStorage of
\* this state
statusUpdateStores(complaintId, newStatus, ok) ==
    LET loaded == StoredArray(lsComplaints)
        k == ComplaintIndex(loaded, complaintId)
    IN  IF k = 0 THEN lsComplaints
        ELSE SetItem(lsComplaints,
                     UpdatedComplaints(loaded, k, [status |-> newStatus], now),
                     ok)

\* C27 as stated: the fallback paths leave what the manager leaves: for
\* the same input on the same stored state createComplaint and
\* createComplaintFallback store the same collection, and
\* updateComplaint with {status} and the tracker's direct status update
\* store the same collection
C27_FallbacksBehaveAsManager ==
    [][\A ok \in BOOLEAN :
         /\ \A data \in ComplaintData(organizations), d \in ClockSteps :
              createComplaint(data, d, ok) =>
                 lsComplaints' = createComplaintFallbackStores(data, d, ok)
         /\ \A data \in ComplaintData(StoredArray(lsOrganizations)),
               d \in ClockSteps :
              createComplaintFallback(data, d, ok) =>
                 lsComplaints' = createComplaintStores(data, d, ok)
         /\ \A id \in UpdateIds, s \in UpdateStatuses :
              /\ updateComplaint(id, [status |-> s], ok) =>
                   lsComplaints' = statusUpdateStores(id, s, ok)
              /\ (~hasCM /\ updateComplaintStatus(id, s, ok, tracker.modal)) =>
                   lsComplaints' = statusUpdateStores(id, s, ok)]_vars

\* the page holds in memory what localStorage holds
InSync ==
    /\ complaints = StoredArray(lsComplaints)
    /\ organizations = StoredArray(lsOrganizations)

\* C27: while the page holds in memory what localStorage holds, the
\* fallback paths store what the manager stores for the same input, with
\* the write succeeding or throwing: createComplaint what
\* createComplaintFallback would, createComplaintFallback what a manager
\* constructed on this storage would, and the status update of either
\* page what the other would
C27_FallbacksAsManagerInSync ==
    [][\A ok \in BOOLEAN :
         /\ (InSync /\ ev'.op = "createComplaint") =>
              \A data \in ComplaintData(organizations), d \in ClockSteps :
                 createComplaint(data, d, ok) =>
                    lsComplaints' = createComplaintFallbackStores(data, d, ok)
         /\ ev'.op = "createComplaintFallback" =>
              \A data \in ComplaintData(StoredArray(lsOrganizations)),
                 d \in ClockSteps :
                 createComplaintFallback(data, d, ok) =>
                    lsComplaints' = createComplaintStores(data, d, ok)
         /\ (InSync /\ ev'.op = "updateComplaint") =>
              \A id \in UpdateIds, s \in UpdateStatuses :
                 updateComplaint(id, [status |-> s], ok) =>
                    lsComplaints' = statusUpdateStores(id, s, ok)
         /\ (InSync /\ ~hasCM /\ ev'.op = "updateComplaintStatus") =>
              \A id \in UpdateIds, s \in UpdateStatuses :
                 updateComplaintStatus(id, s, ok, tracker.modal) =>
                    lsComplaints' = statusUpdateStores(id, s, ok)]_vars

\* the manager has stored a complaint with a deadline, as the fallback
\* would have from the same storage
C27_Witness ==
    /\ ev = [op |-> "createComplaint", res |-> "returned"]
    /\ InSync
    /\ Len(complaints) = 1
    /\ "deadline" \in DOMAIN complaints[1]

-----------------------------------------------------------------------------
(* The steps of the wizard in order *)

\* every required field of the step shown has a value
StepPassed ==
    \A id \in StepFields(formManager.currentStep) :
        NonEmpty(formManager.fields[id])

-----------------------------------------------------------------------------
(* Voice navigation paused *)

\* voice navigation is on and has given up after maxRetryAttempts errors:
\* no session is running and no restart is waiting
Paused ==
    /\ voice.isVoiceNavigationActive
    /\ voice.recognitionRetryCount >= maxRetryAttempts
    /\ ~voice.recognitionActive
    /\ voice.recognizer = "idle"
    /\ voice.timers = 0
    /\ ~voice.restore

\* C29: when voice navigation pauses after maxRetryAttempts consecutive
\* recognition errors, the pause and the end of the session schedule no
\* restart, and one click on the voice navigation button starts
\* recognition again, as the announcement of the pause says
C29_PausedRestartsOnClick ==
    [][/\ ev' = [op |-> "onerror", res |-> "paused"] =>
            voice'.timers = voice.timers
       /\ (/\ voice.recognitionRetryCount >= maxRetryAttempts
           /\ ev'.op = "onend") => voice'.timers = voice.timers
       /\ (Paused /\ \E ok \in BOOLEAN : clickVoiceButton(ok)) =>
            /\ voice'.isVoiceNavigationActive
            /\ voice'.recognitionActive
            /\ voice'.recognizer = "listening"]_vars

-----------------------------------------------------------------------------
(* Voice navigation stopped *)

\* voice navigation has been stopped on this page, by the button or by a
\* 'not-allowed' error: stopVoiceNavigation alone writes this label
Stopped ==
    /\ ~voice.isVoiceNavigationActive
    /\ voice.label = "Start voice navigation"

\* a recognition session starts in this step
SessionStarts ==
    /\ voice.recognizer # "listening"
    /\ voice'.recognizer = "listening"

\* C30: once voice navigation is stopped, by the user or by a
\* 'not-allowed' error, no timer and no callback of the recognizer starts
\* recognition again, only the user's next click does; and a session is
\* started only when no other session of the recognizer is running
C30_NoRestartAfterStop ==
    [][SessionStarts =>
          /\ Stopped => \E ok \in BOOLEAN : clickVoiceButton(ok)
          /\ voice.recognizer = "idle"]_vars

====
